---- MODULE Spec2Model ----
(***************************************************************************)
(* Session engine of the Cable client (src/src/client.ts, class Client and *)
(* class Retrier), with the packet fields the engine reads and writes      *)
(* (src/src/packet.ts) and the 16-bit integer writer (src/src/coder.ts).   *)
(*                                                                         *)
(* One action is one macrotask of the JavaScript event loop: a call of the *)
(* public API, a transport callback, or a timer callback, together with    *)
(* the promise reactions (microtasks) it triggers.                         *)
(***************************************************************************)
EXTENDS Integers, Sequences, FiniteSets, TLC

(***************************************************************************)
(* Bounds of the exploration.                                              *)
(***************************************************************************)
MaxConns == 2           \* transports (WebSocket objects) ever created
MaxOps == 2             \* QoS-1 sends and requests ever issued, together
MaxOrphans == 1         \* armed ping-timeout timers no longer referenced
MaxCount == 2           \* retries counted by the Retrier without reaching Opened
messageMaxRetry == 1    \* option messageMaxRetry of the constructor
MaxBody == 2            \* bytes of a payload or body given to the encoder
MaxTail == 3            \* bytes after the first two of a frame made by the peer

(***************************************************************************)
(* Program constants.                                                      *)
(***************************************************************************)
IdDivisor == 65535      \* 2 ** 16 - 1, the divisor of the id counters
UInt16 == 65536         \* width of the id field on the wire
kindMask == 63          \* 0x3f, largest message kind
Unlimited == 2147483647  \* Number.MAX_SAFE_INTEGER, the default limit of Retrier (above every count)

Unknown == "Unknown"
Opening == "Opening"
Opened == "Opened"
Closing == "Closing"
Closed == "Closed"
Status == {Unknown, Opening, Opened, Closing, Closed}

\* ConnackCode
Accepted == 0
Rejected == 1
\* CloseCode
Normal == 0
Kickout == 1
NoHeartbeat == 2
AuthFailure == 4
\* StatusCode
OK == 0
NotFound == 100

NoCode == -1            \* close() called without a code
NoConn == 0             \* _conn === null
NoIdentity == "null"    \* _identity === null
Identities == {"alice", "bob"}
NoRetrier == [limit |-> -1, count |-> 0, backoff |-> "none", filter |-> "none"]

Socks == 1..MaxConns
MsgKeys == 0..(MaxOps - 1)
ReqKeys == 0..(MaxOps - 1)

(***************************************************************************)
(* Packets as the engine sees them.  One record shape for all types.       *)
(***************************************************************************)
Pkt(type, id, code, qos, dup, who) ==
    [type |-> type, id |-> id, code |-> code, qos |-> qos, dup |-> dup, who |-> who]

\* Coder.writeUInt16 of a JavaScript number i = n / IdDivisor: the shifts
\* and masks truncate the fraction and keep the low 16 bits.
writeUInt16(n) == (n \div IdDivisor) % UInt16

\* The Map key looked up for an integer id read from the wire: the key
\* n / IdDivisor equals the integer id exactly when n = id * IdDivisor.
keyOfId(id) == id * IdDivisor

(***************************************************************************)
(* Results of the caller's futures and failure reasons.                    *)
(***************************************************************************)
Res(tag, code) == [tag |-> tag, code |-> code]
Unused == Res("unused", 0)
Pending == Res("pending", 0)
Resolved == Res("resolved", 0)
NotReady == Res("NotReady", 0)
RequestTimeout == Res("RequestTimeout", 0)
MessageTimeout == Res("MessageTimeout", 0)
MaxRetriesExceeded == Res("max retries exceeded", 0)
MessageKindTooLarge == Res("MessageKindTooLarge", 0)
PacketSizeTooLarge == Res("PacketSizeTooLarge", 0)
NoCall == Res("-", 0)

ConnectFailed(c) == Res("ConnectFailed", c)
ServerClosed(c) == Res("ServerClosed", c)
NetworkError == Res("NetworkError", 0)
PingTimeout == Res("PingTimeout", 0)

VARIABLES
    url,                \* _url: "ok", or "bad" when the WebSocket constructor rejects it
    status,             \* _status
    identity,           \* _identity
    conn,               \* _conn: the current transport, or NoConn
    socks,              \* state of every transport ever created
    pingTimer,          \* _pingTimer: the heartbeat interval is armed
    pingTimeoutTimer,   \* _pingTimeoutTimer: "null", "armed" or "spent"
    orphans,            \* armed ping-timeout timers whose handle was overwritten
    pongReceived,       \* _pongReceived
    requestTasks,       \* keys of _requestTasks
    messageTasks,       \* keys of _messageTasks
    messageId,          \* _messageId
    requestId,          \* _requestId
    retrying,           \* _retrying
    retrier,            \* _retrier, or NoRetrier
    retryTimers,        \* delays of the pending reconnect timers
    msgOps,             \* QoS-1 sends: future, timer, dup, retries, kind,
                        \* frames written (tx), the id of the last one (wid),
                        \* and whether the session has since left Opened (left)
    reqOps,             \* requests: future, timer
    delivered,          \* the handler's onMessage or onRequest has been called
    codec               \* the codec at work: the step it is at, its input and outcome

vars == <<url, status, identity, conn, socks, pingTimer, pingTimeoutTimer, orphans,
          pongReceived, requestTasks, messageTasks, messageId, requestId,
          retrying, retrier, retryTimers, msgOps, reqOps, delivered, codec>>

\* The codec before any use: no packet, integer or length given to it.
CodecIdle ==
    [op |-> "idle", pkt |-> <<>>, ty |-> "none", val |-> <<>>, len |-> 0,
     bytes |-> [ok |-> FALSE, v |-> <<>>, err |-> "none"],
     res |-> [ok |-> FALSE, v |-> <<>>, err |-> "none"]]

\* The client at the start of a step.  The fields out, ret, notified, calls
\* and thrown are what the step hands to the outside: the frames given to a
\* transport, the immediate outcome of the API call, the onStatus calls in
\* order, the packets given to onMessage and onRequest in order, and whether
\* an exception leaves the callback.
Cur ==
    [url |-> url, status |-> status, identity |-> identity, conn |-> conn, socks |-> socks,
     pingTimer |-> pingTimer, pingTimeoutTimer |-> pingTimeoutTimer,
     orphans |-> orphans, pongReceived |-> pongReceived,
     requestTasks |-> requestTasks, messageTasks |-> messageTasks,
     messageId |-> messageId, requestId |-> requestId,
     retrying |-> retrying, retrier |-> retrier, retryTimers |-> retryTimers,
     msgOps |-> msgOps, reqOps |-> reqOps,
     out |-> <<>>, ret |-> NoCall, notified |-> <<>>, calls |-> <<>>, thrown |-> FALSE]

\* A step is taken and leaves the client in state t.
Commit(t) ==
    /\ t.retrier.count <= MaxCount
    /\ delivered' = (delivered \/ t.calls # <<>>)
    /\ codec' = codec
    /\ url' = t.url
    /\ status' = t.status
    /\ identity' = t.identity
    /\ conn' = t.conn
    /\ socks' = t.socks
    /\ pingTimer' = t.pingTimer
    /\ pingTimeoutTimer' = t.pingTimeoutTimer
    /\ orphans' = t.orphans
    /\ pongReceived' = t.pongReceived
    /\ requestTasks' = t.requestTasks
    /\ messageTasks' = t.messageTasks
    /\ messageId' = t.messageId
    /\ requestId' = t.requestId
    /\ retrying' = t.retrying
    /\ retrier' = t.retrier
    /\ retryTimers' = t.retryTimers
    /\ msgOps' = [n \in MsgKeys |->
                    [t.msgOps[n] EXCEPT !.left = @ \/ (t.msgOps[n].tx > 0 /\ t.status # Opened)]]
    /\ reqOps' = t.reqOps

Init ==
    /\ url \in {"ok", "bad"}
    /\ status = Unknown
    /\ identity = NoIdentity
    /\ conn = NoConn
    /\ socks = [c \in Socks |-> "none"]
    /\ pingTimer = FALSE
    /\ pingTimeoutTimer = "null"
    /\ orphans = 0
    /\ pongReceived = TRUE
    /\ requestTasks = {}
    /\ messageTasks = {}
    /\ messageId = 0
    /\ requestId = 0
    /\ retrying = FALSE
    /\ retrier = NoRetrier
    /\ retryTimers = <<>>
    /\ msgOps = [n \in MsgKeys |-> [res |-> Unused, timer |-> FALSE, dup |-> FALSE,
                                  retries |-> 0, kind |-> 0, tx |-> 0, wid |-> -1,
                                  left |-> FALSE]]
    /\ reqOps = [n \in ReqKeys |-> [res |-> Unused, timer |-> FALSE]]
    /\ delivered = FALSE
    /\ codec = CodecIdle


(***************************************************************************)
(* Transports.  A WebSocket is "none" before it is created, then           *)
(* "connecting", "open", "closing" once close() was called on it,          *)
(* "errored" after its error event, and "closed" after its close event.    *)
(***************************************************************************)
FreeSocks(s) == {c \in Socks : s.socks[c] = "none"}
NewSock(s) == CHOOSE c \in FreeSocks(s) : \A d \in FreeSocks(s) : c <= d

\* WebSocket.close(): starts the closing handshake of a live socket.
wsClose(s, c) ==
    IF c # NoConn /\ s.socks[c] \in {"connecting", "open"}
    THEN [s EXCEPT !.socks[c] = "closing"]
    ELSE s

\* WebSocket.send(): the frame is handed to transport c.
wsSend(s, c, p) == [s EXCEPT !.out = Append(@, [conn |-> c, pkt |-> p])]

\* Variant: the gate also lets Opening through.
isReady_Opening(s) == s.status \in {Opened, Opening}

isReady(s) == s.status = Opened

(***************************************************************************)
(* Heartbeat timers.                                                       *)
(***************************************************************************)
startPingTimer(s) == [s EXCEPT !.pingTimer = TRUE]

closePingTimer(s) == [s EXCEPT !.pingTimer = FALSE, !.pingTimeoutTimer = "null"]

(***************************************************************************)
(* Retrier.                                                                *)
(***************************************************************************)
\* The retry filters offered to autoRetry: none, or the filter of the test
\* client, true for a server close with code Normal, Kickout or AuthFailure.
Filters == {"none", "serverClosed"}
filterHolds(f, reason) ==
    /\ f = "serverClosed"
    /\ reason.tag = "ServerClosed"
    /\ reason.code \in {Normal, Kickout, AuthFailure}

RECURSIVE pow(_, _)
pow(b, e) == IF e = 0 THEN 1 ELSE b * pow(b, e - 1)

\* Backoff.next(count) * 1000, in milliseconds.  u stands for the draw
\* Math.random() * 2 - 1 at the ends of its range; the jitter is 0.1.
Backoffs == {"exponential", "const"}
Jitters == {-1, 1}
backoffNext(b, count, u) ==
    IF b = "exponential"
    THEN LET delay == pow(2, count - 1) IN delay * 1000 + u * 10 * delay * 10
    ELSE 5 * 1000

reset(r) == IF r = NoRetrier THEN r ELSE [r EXCEPT !.count = 0]

\* Variant: the filter is read as "retry when true".
shouldRetry_FilterMeansRetry(r, reason, u) ==
    IF r.filter # "none" /\ ~filterHolds(r.filter, reason)
    THEN [delay |-> 0, ok |-> FALSE, retrier |-> r]
    ELSE IF r.count >= r.limit
    THEN [delay |-> 0, ok |-> FALSE, retrier |-> r]
    ELSE [delay |-> backoffNext(r.backoff, r.count + 1, u), ok |-> TRUE,
          retrier |-> [r EXCEPT !.count = @ + 1]]

\* Variant: the limit is not looked at.
shouldRetry_NoLimit(r, reason, u) ==
    IF r.filter # "none" /\ filterHolds(r.filter, reason)
    THEN [delay |-> 0, ok |-> FALSE, retrier |-> r]
    ELSE [delay |-> backoffNext(r.backoff, r.count + 1, u), ok |-> TRUE,
          retrier |-> [r EXCEPT !.count = @ + 1]]

shouldRetry(r, reason, u) ==
    IF r.filter # "none" /\ filterHolds(r.filter, reason)
    THEN [delay |-> 0, ok |-> FALSE, retrier |-> r]
    ELSE IF r.count >= r.limit
    THEN [delay |-> 0, ok |-> FALSE, retrier |-> r]
    ELSE [delay |-> backoffNext(r.backoff, r.count + 1, u), ok |-> TRUE,
          retrier |-> [r EXCEPT !.count = @ + 1]]

(***************************************************************************)
(* Correlation tables.                                                     *)
(***************************************************************************)
\* The callback stored by request(): clearTimeout, then settle the future.
requestCallback(s, n, arg) ==
    [s EXCEPT !.reqOps[n] =
        [@ EXCEPT !.timer = FALSE,
                  !.res = IF @ # Pending THEN @
                          ELSE IF arg.type # "Response" THEN arg.err
                          ELSE IF arg.code = OK THEN Res("resolved", arg.who)
                          ELSE Res("StatusCode", arg.code)]]

\* The callback stored by _sendMessage(): clearTimeout, then settle.
messageCallback(s, n, arg) ==
    [s EXCEPT !.msgOps[n] =
        [@ EXCEPT !.timer = FALSE,
                  !.res = IF @ # Pending THEN @
                          ELSE IF arg.type # "Messack" THEN arg.err
                          ELSE Resolved]]

ErrArg(error) == [type |-> "Error", err |-> error]

RECURSIVE forEachRequest(_, _, _)
forEachRequest(s, keys, error) ==
    IF keys = {} THEN s
    ELSE LET n == CHOOSE k \in keys : TRUE
         IN forEachRequest(requestCallback(s, n, ErrArg(error)), keys \ {n}, error)

RECURSIVE forEachMessage(_, _, _)
forEachMessage(s, keys, error) ==
    IF keys = {} THEN s
    ELSE LET n == CHOOSE k \in keys : TRUE
         IN forEachMessage(messageCallback(s, n, ErrArg(error)), keys \ {n}, error)

\* Variant: the table of QoS-1 messages is not cleared.
clearAllTasks_KeepMessages(s, error) ==
    LET s1 == forEachRequest(s, s.requestTasks, error)
        s2 == forEachMessage(s1, s1.messageTasks, error)
    IN [s2 EXCEPT !.requestTasks = {}]

clearAllTasks(s, error) ==
    LET s1 == forEachRequest(s, s.requestTasks, error)
        s2 == forEachMessage(s1, s1.messageTasks, error)
    IN [s2 EXCEPT !.requestTasks = {}, !.messageTasks = {}]

(***************************************************************************)
(* Status changes.                                                         *)
(***************************************************************************)
\* Variant: entering Closed leaves the transport open and in place.
setStatus_KeepConn(s, st) ==
    IF s.status = st THEN s
    ELSE LET s1 == [s EXCEPT !.status = st]
             s2 == CASE st = Opened ->
                           startPingTimer([s1 EXCEPT !.retrier = reset(@)])
                      [] st = Closed ->
                           [closePingTimer(s1) EXCEPT !.requestTasks = {}, !.messageTasks = {}]
                      [] OTHER -> s1
         IN [s2 EXCEPT !.notified = Append(@, st)]

\* Variant: entering Opened does not reset the retrier.
setStatus_NoReset(s, st) ==
    IF s.status = st THEN s
    ELSE LET s1 == [s EXCEPT !.status = st]
             s2 == CASE st = Opened -> startPingTimer(s1)
                      [] st = Closed ->
                           LET s3 == closePingTimer(s1)
                               s4 == IF s3.conn # NoConn
                                     THEN [wsClose(s3, s3.conn) EXCEPT !.conn = NoConn]
                                     ELSE s3
                           IN [s4 EXCEPT !.requestTasks = {}, !.messageTasks = {}]
                      [] OTHER -> s1
         IN [s2 EXCEPT !.notified = Append(@, st)]

setStatus(s, st) ==
    IF s.status = st THEN s
    ELSE LET s1 == [s EXCEPT !.status = st]
             s2 == CASE st = Opened ->
                           startPingTimer([s1 EXCEPT !.retrier = reset(@)])
                      [] st = Closed ->
                           LET s3 == closePingTimer(s1)
                               s4 == IF s3.conn # NoConn
                                     THEN [wsClose(s3, s3.conn) EXCEPT !.conn = NoConn]
                                     ELSE s3
                           IN [s4 EXCEPT !.requestTasks = {}, !.messageTasks = {}]
                      [] OTHER -> s1
         IN [s2 EXCEPT !.notified = Append(@, st)]

\* sendPacket inside a try block whose catch only logs: a NotReady thrown
\* by sendPacket writes nothing.
sendPacket(s, p) ==
    IF ~isReady(s) THEN s
    ELSE IF s.conn # NoConn THEN wsSend(s, s.conn, p)
    ELSE s

\* Variant: retryWhen does not return while a reconnect is pending.
retryWhen_NoGuard(s, reason, u) ==
    LET s1 == clearAllTasks(s, reason)
    IN IF s1.status \in {Closed, Closing} THEN s1
       ELSE IF s1.retrier = NoRetrier THEN setStatus(s1, Closed)
       ELSE LET r == shouldRetry(s1.retrier, reason, u)
                s2 == [s1 EXCEPT !.retrier = r.retrier]
            IN IF ~r.ok THEN setStatus(s2, Closed)
               ELSE [setStatus([s2 EXCEPT !.retrying = TRUE], Opening)
                       EXCEPT !.retryTimers = Append(@, r.delay)]

\* Variant: _retrying is not set when the reconnect timer is armed.
retryWhen_NoFlag(s, reason, u) ==
    IF s.retrying THEN s
    ELSE LET s1 == clearAllTasks(s, reason)
         IN IF s1.status \in {Closed, Closing} THEN s1
            ELSE IF s1.retrier = NoRetrier THEN setStatus(s1, Closed)
            ELSE LET r == shouldRetry(s1.retrier, reason, u)
                     s2 == [s1 EXCEPT !.retrier = r.retrier]
                 IN IF ~r.ok THEN setStatus(s2, Closed)
                    ELSE [setStatus(s2, Opening)
                            EXCEPT !.retryTimers = Append(@, r.delay)]

retryWhen(s, reason, u) ==
    IF s.retrying THEN s
    ELSE LET s1 == clearAllTasks(s, reason)
         IN IF s1.status \in {Closed, Closing} THEN s1
            ELSE IF s1.retrier = NoRetrier THEN setStatus(s1, Closed)
            ELSE LET r == shouldRetry(s1.retrier, reason, u)
                     s2 == [s1 EXCEPT !.retrier = r.retrier]
                 IN IF ~r.ok THEN setStatus(s2, Closed)
                    ELSE [setStatus([s2 EXCEPT !.retrying = TRUE], Opening)
                            EXCEPT !.retryTimers = Append(@, r.delay)]

\* Variant: reconnect does not look at the status.
reconnect_AnyStatus(s, u) ==
    LET s1 == wsClose(s, s.conn)
    IN IF s1.url = "bad" THEN retryWhen(s1, NetworkError, u)
       ELSE LET c == NewSock(s1)
            IN [s1 EXCEPT !.socks[c] = "connecting", !.conn = c]

\* The WebSocket constructor throws on a URL it cannot parse.
reconnect(s, u) ==
    IF s.status # Opening THEN s
    ELSE LET s1 == wsClose(s, s.conn)
         IN IF s1.url = "bad" THEN retryWhen(s1, NetworkError, u)
            ELSE LET c == NewSock(s1)
                 IN [s1 EXCEPT !.socks[c] = "connecting", !.conn = c]


(***************************************************************************)
(* Public API.                                                             *)
(***************************************************************************)
JitterFor(s) == IF s.retrier.backoff = "exponential" THEN Jitters ELSE {0}

\* Variant: connect does not look at the status.
connect_Always(s, ident, u) ==
    reconnect(setStatus([s EXCEPT !.identity = ident], Opening), u)

connect(s, ident, u) ==
    IF s.status = Opened \/ s.status = Opening THEN s
    ELSE reconnect(setStatus([s EXCEPT !.identity = ident], Opening), u)

CloseCodes == {Normal, Kickout, AuthFailure}

close(s, code) ==
    IF s.status = Closed \/ s.status = Closing THEN s
    ELSE LET s1 == setStatus(s, Closing)
             s2 == IF code # NoCode /\ code # 0
                   THEN sendPacket(s1, Pkt("Close", 0, code, 0, FALSE, 0))
                   ELSE s1
         IN setStatus(s2, Closed)

RetryConfigs ==
    {[limit |-> 1, count |-> 0, backoff |-> "const", filter |-> "none"],
     [limit |-> Unlimited, count |-> 0, backoff |-> "exponential", filter |-> "serverClosed"]}

autoRetry(s, cfg) == [s EXCEPT !.retrier = cfg]

MessageFrame(n, kind, dup) == Pkt("Message", writeUInt16(n), kind, 1, dup, 0)

\* _sendMessage for a QoS-1 message whose future is that of operation n.
sendMessageQos1(s, n) ==
    IF ~isReady(s) THEN [s EXCEPT !.msgOps[n].res = NotReady, !.msgOps[n].kind = 0]
    ELSE LET op == s.msgOps[n]
             s1 == [s EXCEPT !.msgOps[n].timer = TRUE,
                             !.messageTasks = @ \cup {n}]
         IN IF s1.conn = NoConn THEN s1
            ELSE IF op.kind > kindMask
            THEN [s1 EXCEPT !.msgOps[n].res = MessageKindTooLarge]
            ELSE wsSend([s1 EXCEPT !.msgOps[n].tx = @ + 1,
                                   !.msgOps[n].wid = writeUInt16(n)], s1.conn,
                        MessageFrame(n, op.kind, op.dup))

\* Variant: a QoS-0 message takes an id from the message counter.
sendMessageQos0_Counted(s, kind) ==
    IF ~isReady(s) THEN [s EXCEPT !.ret = NotReady]
    ELSE IF s.conn # NoConn /\ kind > kindMask THEN [s EXCEPT !.ret = MessageKindTooLarge]
    ELSE [sendPacket(s, Pkt("Message", s.messageId + 1, kind, 0, FALSE, 0))
            EXCEPT !.ret = Resolved, !.messageId = @ + 1]

\* _sendMessage for a QoS-0 message.
sendMessageQos0(s, kind) ==
    IF ~isReady(s) THEN [s EXCEPT !.ret = NotReady]
    ELSE IF s.conn # NoConn /\ kind > kindMask THEN [s EXCEPT !.ret = MessageKindTooLarge]
    ELSE [sendPacket(s, Pkt("Message", 0, kind, 0, FALSE, 0)) EXCEPT !.ret = Resolved]

\* _sendMessage1(p, retries) for operation n.
sendMessage1(s, n, retries) ==
    IF retries > messageMaxRetry
    THEN [s EXCEPT !.msgOps[n].res = MaxRetriesExceeded]
    ELSE sendMessageQos1([s EXCEPT !.msgOps[n].retries = retries], n)

send(s, qos, kind) ==
    IF qos = 0 THEN sendMessageQos0(s, kind)
    ELSE LET n == s.messageId
             s1 == [s EXCEPT !.messageId = @ + 1,
                             !.msgOps[n] = [res |-> Pending, timer |-> FALSE, dup |-> FALSE,
                                            retries |-> 0, kind |-> kind, tx |-> 0, wid |-> -1,
                                            left |-> FALSE]]
             s2 == sendMessage1(s1, n, 0)
         IN [s2 EXCEPT !.ret = s2.msgOps[n].res]

\* Variant: the catch of _sendMessage1 does not set p.dup.
messageTimeout_NoDup(s, n) ==
    LET s1 == [s EXCEPT !.msgOps[n].timer = FALSE,
                        !.requestTasks = @ \ {n}]
    IN IF s1.msgOps[n].res # Pending THEN s1
       ELSE sendMessage1(s1, n, s1.msgOps[n].retries + 1)

\* The messageTimeout timer of operation n fires; the catch of
\* _sendMessage1 runs as a microtask of the same step.
messageTimeout(s, n) ==
    LET s1 == [s EXCEPT !.msgOps[n].timer = FALSE,
                        !.requestTasks = @ \ {n}]
    IN IF s1.msgOps[n].res # Pending THEN s1
       ELSE sendMessage1([s1 EXCEPT !.msgOps[n].dup = TRUE], n, s1.msgOps[n].retries + 1)

RequestFrame(n) == Pkt("Request", writeUInt16(n), 0, 0, FALSE, n)

\* big: the body makes the frame longer than MAX_LEN.
request(s, big) ==
    LET n == s.requestId
        s1 == [s EXCEPT !.requestId = @ + 1, !.reqOps[n].res = Pending]
        s2 == IF ~isReady(s1) THEN [s1 EXCEPT !.reqOps[n].res = NotReady]
              ELSE LET s3 == [s1 EXCEPT !.reqOps[n].timer = TRUE,
                                        !.requestTasks = @ \cup {n}]
                   IN IF s3.conn = NoConn THEN s3
                      ELSE IF big THEN [s3 EXCEPT !.reqOps[n].res = PacketSizeTooLarge]
                      ELSE wsSend(s3, s3.conn, RequestFrame(n))
    IN [s2 EXCEPT !.ret = s2.reqOps[n].res]

requestTimeout(s, n) ==
    LET s1 == [s EXCEPT !.reqOps[n].timer = FALSE,
                        !.requestTasks = @ \ {n}]
    IN IF s1.reqOps[n].res # Pending THEN s1
       ELSE [s1 EXCEPT !.reqOps[n].res = RequestTimeout]


(***************************************************************************)
(* Transport callbacks.                                                    *)
(***************************************************************************)
ConnectFrame(ident) == Pkt("Connect", 0, 1, 0, FALSE, ident)

\* Variant: the session counts as Opened as soon as the transport is open.
onWebSocketOpen_Ready(s, u) ==
    IF s.identity = NoIdentity THEN s
    ELSE IF s.conn = NoConn THEN s
    ELSE IF s.socks[s.conn] = "connecting" THEN retryWhen(s, NetworkError, u)
    ELSE setStatus(wsSend(s, s.conn, ConnectFrame(s.identity)), Opened)

onWebSocketOpen(s, u) ==
    IF s.identity = NoIdentity THEN s
    ELSE IF s.conn = NoConn THEN s
    ELSE IF s.socks[s.conn] = "connecting" THEN retryWhen(s, NetworkError, u)
    ELSE wsSend(s, s.conn, ConnectFrame(s.identity))

handleConnack(s, p, u) ==
    IF p.code # Accepted THEN retryWhen(s, ConnectFailed(p.code), u)
    ELSE startPingTimer(setStatus(s, Opened))

\* Variant: every Message is acknowledged, whatever its qos.
handleMessage_AckAll(s, p, throws) ==
    LET s1 == [s EXCEPT !.calls = Append(@, p)]
    IN IF throws THEN [s1 EXCEPT !.thrown = TRUE]
       ELSE sendPacket(s1, Pkt("Messack", p.id, 0, 0, FALSE, 0))

\* throws: the handler's onMessage throws, and the exception leaves
\* handleMessage.
handleMessage(s, p, throws) ==
    LET s1 == [s EXCEPT !.calls = Append(@, p)]
    IN IF throws THEN [s1 EXCEPT !.thrown = TRUE]
       ELSE IF p.qos = 1 THEN sendPacket(s1, Pkt("Messack", p.id, 0, 0, FALSE, 0))
       ELSE s1

handleMessack(s, p) ==
    LET n == keyOfId(p.id)
    IN IF n \in s.messageTasks
       THEN messageCallback([s EXCEPT !.messageTasks = @ \ {n}], n, p)
       ELSE s

\* throws: the handler's onRequest throws (as DefaultHandler does);
\* otherwise it answers with request.response(OK).
handleRequest(s, p, throws) ==
    LET s1 == [s EXCEPT !.calls = Append(@, p)]
    IN IF throws THEN [s1 EXCEPT !.thrown = TRUE]
       ELSE sendPacket(s1, Pkt("Response", p.id, OK, 0, FALSE, 0))

handleResponse(s, p) ==
    LET n == keyOfId(p.id)
    IN IF n \in s.requestTasks
       THEN requestCallback([s EXCEPT !.requestTasks = @ \ {n}], n, p)
       ELSE s

handlePong(s) ==
    [s EXCEPT !.pongReceived = TRUE,
              !.pingTimeoutTimer = IF @ = "armed" THEN "spent" ELSE @]

handlePacket(s, p, throws, u) ==
    CASE p.type = "Connect" -> s
      [] p.type = "Connack" -> handleConnack(s, p, u)
      [] p.type = "Message" -> handleMessage(s, p, throws)
      [] p.type = "Messack" -> handleMessack(s, p)
      [] p.type = "Request" -> handleRequest(s, p, throws)
      [] p.type = "Response" -> handleResponse(s, p)
      [] p.type = "Ping" -> sendPacket(s, Pkt("Pong", 0, 0, 0, FALSE, 0))
      [] p.type = "Pong" -> handlePong(s)
      [] p.type = "Close" -> retryWhen(s, ServerClosed(p.code), u)

\* Variant: a frame that does not decode is dropped.
onWebSocketData_Drop(s, p, throws, u) ==
    IF p.type = "Garbage" THEN s
    ELSE [handlePacket(s, p, throws, u) EXCEPT !.thrown = FALSE]

\* A frame that packet.decode rejects has type "Garbage".  decode and
\* handlePacket run in one try block: its catch hands a PacketError or a
\* CoderError to retryWhen, logs every other exception (one thrown by the
\* handler included) and rethrows nothing, so nothing leaves the callback.
onWebSocketData(s, p, throws, u) ==
    IF p.type = "Garbage" THEN retryWhen(s, NetworkError, u)
    ELSE [handlePacket(s, p, throws, u) EXCEPT !.thrown = FALSE]

(***************************************************************************)
(* Timer callbacks.                                                        *)
(***************************************************************************)
pingTick(s) ==
    IF ~isReady(s) THEN s
    ELSE LET s1 == sendPacket([s EXCEPT !.pongReceived = FALSE],
                              Pkt("Ping", 0, 0, 0, FALSE, 0))
         IN [s1 EXCEPT !.orphans = IF s.pingTimeoutTimer = "armed" THEN @ + 1 ELSE @,
                       !.pingTimeoutTimer = "armed"]

pingTimeoutFired(s, u) ==
    IF ~s.pongReceived THEN retryWhen(s, PingTimeout, u) ELSE s

retryTimerFired(s, i, u) ==
    LET s1 == [s EXCEPT !.retryTimers = SubSeq(@, 1, i - 1) \o SubSeq(@, i + 1, Len(@))]
    IN [reconnect(s1, u) EXCEPT !.retrying = FALSE]


(***************************************************************************)
(* Actions: one per API call, transport event and timer.                   *)
(***************************************************************************)
\* A new transport can be created whenever reconnect would create one.
CanReconnect(s) == s.url = "bad" \/ FreeSocks(s) # {}

Connect(ident) ==
    /\ status \in {Opened, Opening} \/ CanReconnect(Cur)
    /\ \E u \in JitterFor(Cur) : Commit(connect(Cur, ident, u))

Close(code) ==
    /\ code \in CloseCodes \cup {NoCode}
    /\ Commit(close(Cur, code))

\* autoRetry is called while the client is set up, before the first connect.
AutoRetry(cfg) ==
    /\ retrier = NoRetrier
    /\ status = Unknown /\ messageId = 0 /\ requestId = 0
    /\ Commit(autoRetry(Cur, cfg))

Send(qos, kind) ==
    /\ qos = 1 => messageId + requestId < MaxOps
    /\ Commit(send(Cur, qos, kind))

Request(big) ==
    /\ messageId + requestId < MaxOps
    /\ Commit(request(Cur, big))

WsOpened(c, u) == onWebSocketOpen([Cur EXCEPT !.socks[c] = "open"], u)

WsOpen(c) ==
    /\ socks[c] = "connecting"
    /\ \E u \in JitterFor(Cur) : Commit(WsOpened(c, u))

\* The frames the server may send.  A Response answers a Request that was
\* written (field who) and carries the id of that Request's frame.
ReqWritten(n) == reqOps[n].res \notin {Unused, NotReady, PacketSizeTooLarge}
InPackets ==
    {Pkt("Connack", 0, c, 0, FALSE, 0) : c \in {Accepted, Rejected}}
    \cup {Pkt("Message", 7, 0, q, FALSE, 0) : q \in {0, 1}}
    \cup {Pkt("Messack", i, 0, 0, FALSE, 0) : i \in {0, 1}}
    \cup {Pkt("Response", writeUInt16(n), c, 0, FALSE, n) : n \in ReqKeys, c \in {OK, NotFound}}
    \cup {Pkt(t, 0, 0, 0, FALSE, 0) : t \in {"Connect", "Request", "Ping", "Pong", "Garbage"}}
    \cup {Pkt("Close", 0, c, 0, FALSE, 0) : c \in {Kickout, NoHeartbeat}}

WsMessage(c, p, throws) ==
    /\ socks[c] = "open"
    /\ throws => p.type \in {"Message", "Request"}
    /\ p.type = "Response" => ReqWritten(p.who)
    /\ \E u \in JitterFor(Cur) : Commit(onWebSocketData(Cur, p, throws, u))

WsError(c) ==
    /\ socks[c] \in {"connecting", "open", "closing"}
    /\ \E u \in JitterFor(Cur) :
          Commit(retryWhen([Cur EXCEPT !.socks[c] = "errored"], NetworkError, u))

WsClose(c) ==
    /\ socks[c] \in {"open", "closing", "errored"}
    /\ \E u \in JitterFor(Cur) :
          Commit(retryWhen([Cur EXCEPT !.socks[c] = "closed"], NetworkError, u))

MessageTimerFires(n) ==
    /\ msgOps[n].timer
    /\ Commit(messageTimeout(Cur, n))

RequestTimerFires(n) ==
    /\ reqOps[n].timer
    /\ Commit(requestTimeout(Cur, n))

PingIntervalFires ==
    /\ pingTimer
    /\ (status = Opened /\ pingTimeoutTimer = "armed") => orphans < MaxOrphans
    /\ Commit(pingTick(Cur))

PingTimeoutFires ==
    /\ pingTimeoutTimer = "armed"
    /\ \E u \in JitterFor(Cur) :
          Commit(pingTimeoutFired([Cur EXCEPT !.pingTimeoutTimer = "spent"], u))

OrphanPingTimeoutFires ==
    /\ orphans > 0
    /\ \E u \in JitterFor(Cur) :
          Commit(pingTimeoutFired([Cur EXCEPT !.orphans = @ - 1], u))

RetryTimerFires(i) ==
    /\ i \in 1..Len(retryTimers)
    /\ status = Opening => CanReconnect(Cur)
    /\ \E u \in JitterFor(Cur) : Commit(retryTimerFired(Cur, i, u))

(***************************************************************************)
(* Spec: the engine under load.  Every API call, transport event,          *)
(* per-operation timer and the reconnect timer.  The server sends the      *)
(* frames that answer the client (Connack, Messack, Response), Close and   *)
(* undecodable frames; the heartbeat interval is longer than the run; one  *)
(* identity and one retry configuration are used.                          *)
(***************************************************************************)
AnswerPackets ==
    {p \in InPackets : /\ p.type \in {"Connack", "Messack", "Response", "Close", "Garbage"}
                       /\ p.type = "Close" => p.code = Kickout}

Next ==
    \/ Connect("alice")
    \/ \E code \in CloseCodes \cup {NoCode} : Close(code)
    \/ \E cfg \in {c \in RetryConfigs : c.limit = 1} : AutoRetry(cfg)
    \/ \E qos \in {0, 1} : Send(qos, 60)
    \/ Request(FALSE)
    \/ \E c \in Socks : WsOpen(c)
    \/ \E c \in Socks, p \in AnswerPackets : WsMessage(c, p, FALSE)
    \/ \E c \in Socks : WsError(c)
    \/ \E c \in Socks : WsClose(c)
    \/ \E n \in MsgKeys : MessageTimerFires(n)
    \/ \E n \in ReqKeys : RequestTimerFires(n)
    \/ \E i \in 1..2 : RetryTimerFires(i)

Spec == Init /\ [][Next]_vars

(***************************************************************************)
(* SpecSession: the life cycle of the session.  connect with either        *)
(* identity, close, autoRetry with either configuration, QoS-0 sends,      *)
(* every transport event and inbound frame, the heartbeat timers and the   *)
(* reconnect timer; no QoS-1 send and no request is issued.                *)
(***************************************************************************)
NextSession ==
    \/ \E ident \in Identities : Connect(ident)
    \/ \E code \in CloseCodes \cup {NoCode} : Close(code)
    \/ \E cfg \in RetryConfigs : AutoRetry(cfg)
    \/ Send(0, 60)
    \/ \E c \in Socks : WsOpen(c)
    \/ \E c \in Socks, p \in InPackets, throws \in BOOLEAN : WsMessage(c, p, throws)
    \/ \E c \in Socks : WsError(c)
    \/ \E c \in Socks : WsClose(c)
    \/ PingIntervalFires
    \/ PingTimeoutFires
    \/ OrphanPingTimeoutFires
    \/ \E i \in 1..2 : RetryTimerFires(i)

SpecSession == Init /\ [][NextSession]_vars

(***************************************************************************)
(* Codec (src/src/coder.ts).  A Coder is a byte buffer with a cursor; the  *)
(* field err holds the exception a read has thrown, after which every      *)
(* further step of the same decoding is skipped.  The methods of Coder are *)
(* functions of the coder they act on and of their arguments, and give the *)
(* coder after the call.                                                   *)
(***************************************************************************)
DefaultCap == 256       \* capacity of new Coder() when no cap is given

Fill(n, v) == [i \in 1..n |-> v]

\* A JavaScript number or BigInt between -2^64 and 2^64 - 1 is a record
\* [neg, b]: the eight bytes b are its two's complement bits (big-endian)
\* and neg tells that it is negative, so its value is the unsigned value
\* of b, less 2^64 when neg.  The shifts and masks of the writers pick
\* bytes out of these bits.
Numbers == [neg : BOOLEAN, b : Seq(Nat)]

\* UNum: the number whose unsigned big-endian bytes are bs, as
\* (b0 << 8) | b1 gives for two bytes and the BigInt shifts for eight.
UNum(bs) == [neg |-> FALSE, b |-> Fill(8 - Len(bs), 0) \o bs]

\* The number a 32-bit signed operation gives for the bytes bs:
\* (u << 24) >> 24, (u << 16) >> 16, u | 0, and (b0 << 24) | ... itself.
SNum(bs) == IF bs[1] >= 128 THEN [neg |-> TRUE, b |-> Fill(8 - Len(bs), 255) \o bs] ELSE UNum(bs)

\* A small non-negative integer as a number, and back.
NumOf(n) == UNum(<<n \div 256, n % 256>>)
IntOf(x) == x.b[7] * 256 + x.b[8]

Coders == [buf : Seq(Nat), pos : Nat, err : STRING]

NewCoder == [buf |-> Fill(DefaultCap, 0), pos |-> 0, err |-> "none"]

RECURSIVE newCapacity(_, _)
newCapacity(cap, newSize) == IF cap < newSize THEN newCapacity(cap * 2, newSize) ELSE cap

ensureCapacity[c \in Coders, additional \in Nat] ==
    LET newSize == c.pos + additional
    IN IF newSize > Len(c.buf)
       THEN [c EXCEPT !.buf = @ \o Fill(newCapacity(Len(@) * 2, newSize) - Len(@), 0)]
       ELSE c

\* buf.set(p, pos) or buf[pos++] = ... for each byte of p, with the room
\* for it already there
bufSet[c \in Coders, p \in Seq(Nat)] ==
    [c EXCEPT !.buf = [i \in 1..Len(@) |->
                          IF i > c.pos /\ i <= c.pos + Len(p) THEN p[i - c.pos] ELSE @[i]],
              !.pos = @ + Len(p)]

CoderWriteBytes[c \in Coders, p \in Seq(Nat)] == bufSet[ensureCapacity[c, Len(p)], p]

\* Number(y) & 0xff for the BigInt y >= 0 with bytes bs: a double holds 53
\* bits, so a y of e > 53 bits is rounded to the nearest multiple of 2^d
\* (d the bits in excess, ties to even) before its low byte is taken.
numberLowByte(bs) ==
    LET n == Len(bs)
        e == IF \A i \in 1..n : bs[i] = 0 THEN 0
             ELSE LET i == CHOOSE j \in 1..n : bs[j] # 0 /\ \A k \in 1..(j - 1) : bs[k] = 0
                      w == CHOOSE k \in 1..8 : bs[i] < pow(2, k) /\ bs[i] >= pow(2, k - 1)
                  IN 8 * (n - i) + w
        low == bs[n - 1] * 256 + bs[n]
    IN IF e <= 53 THEN bs[n]
       ELSE LET d == e - 53
                r == low % pow(2, d)
                q == low \div pow(2, d)
                half == pow(2, d - 1)
                up == IF r > half \/ (r = half /\ q % 2 = 1) THEN 1 ELSE 0
            IN ((q + up) * pow(2, d)) % 256

\* writeUInt8 .. writeInt64, by the type written.  The signed writers mask
\* the value (i & 0xff, i & 0xffff, i & 0xffffffff, i & 0xffffffffffffffffn)
\* and call the unsigned writer: the low bits of the two's complement.
\* writeUInt64 takes i >> 56n .. i >> 16n exactly and its last two bytes
\* from Number(i >> 8n) and Number(i).
writeInt[ty \in STRING, c \in Coders, x \in Numbers] ==
    CASE ty \in {"u8", "i8"} -> bufSet[ensureCapacity[c, 1], <<x.b[8]>>]
      [] ty \in {"u16", "i16"} -> bufSet[ensureCapacity[c, 2], <<x.b[7], x.b[8]>>]
      [] ty \in {"u32", "i32"} ->
           bufSet[ensureCapacity[c, 4], <<x.b[5], x.b[6], x.b[7], x.b[8]>>]
      [] ty \in {"u64", "i64"} ->
           bufSet[ensureCapacity[c, 8],
                  <<x.b[1], x.b[2], x.b[3], x.b[4], x.b[5], x.b[6],
                    numberLowByte(<<0>> \o SubSeq(x.b, 1, 7)), numberLowByte(x.b)>>]

RECURSIVE varintBytes(_)
varintBytes(i) == IF i >= 128 THEN <<(i % 128) + 128>> \o varintBytes(i \div 128) ELSE <<i % 128>>

\* writeString: the bytes of s (strings are sequences of ASCII codes, which
\* TextEncoder and TextDecoder map to the same bytes and back) through
\* writeData: writeVarint, which reserves ten bytes whatever it then
\* writes, and writeBytes.
CoderWriteString[c \in Coders, s \in Seq(Nat)] ==
    CoderWriteBytes[bufSet[ensureCapacity[c, 10], varintBytes(Len(s))], s]

\* A Map<number, string> is the sequence of its entries <<key, value>> in
\* insertion order.
writeEntries[c \in Coders, m \in Seq(Nat \X Seq(Nat))] ==
    IF m = <<>> THEN c
    ELSE writeEntries[CoderWriteString[writeInt["u8", c, NumOf(m[1][1])], m[1][2]], Tail(m)]

CoderWriteUInt8Map[c \in Coders, m \in Seq(Nat \X Seq(Nat))] == writeEntries[writeInt["u8", c, NumOf(Len(m))], m]

\* The outcome of a read: the coder after it and the value read.
Read(c, v) == [c |-> c, v |-> v]
Throw(c, error) == [c EXCEPT !.err = IF @ = "none" THEN error ELSE @]

CoderReadBytes[c \in Coders, l \in Nat] ==
    IF c.err # "none" \/ l = 0 THEN Read(c, <<>>)
    ELSE IF c.pos + l > Len(c.buf) THEN Read(Throw(c, "BufferTooShort"), <<>>)
    ELSE Read([c EXCEPT !.pos = @ + l], SubSeq(c.buf, c.pos + 1, c.pos + l))

\* readUInt8 .. readInt64, by the type read.  readUInt8 makes the check of
\* readBytes(1) itself.  readUInt16 is (b0 << 8) | b1; readUInt32 is
\* (b0 << 24) | (b1 << 16) | (b2 << 8) | b3, a signed 32-bit integer;
\* readUInt64 is made of BigInt shifts, the unsigned value; readInt8 is
\* (u << 24) >> 24, readInt16 is (u << 16) >> 16, readInt32 is u | 0, and
\* readInt64 returns what readUInt64 returned.
readInt[ty \in STRING, c \in Coders] ==
    LET width == CASE ty \in {"u8", "i8"} -> 1 [] ty \in {"u16", "i16"} -> 2
                   [] ty \in {"u32", "i32"} -> 4 [] ty \in {"u64", "i64"} -> 8
        value(r) == Read(r.c, IF r.c.err # "none" THEN UNum(<<0>>)
                              ELSE IF ty \in {"u8", "u16", "u64", "i64"} THEN UNum(r.v)
                              ELSE SNum(r.v))
    IN value(CoderReadBytes[c, width])

\* The loop of readVarint after i bytes, which gave result.  The fifth to
\* tenth byte are folded into a 32-bit integer by
\* result |= (byte & 0x7f) << shift; no varint read here is that long, and
\* that value is not computed.
CoderReadVarint[c \in Coders, i \in Nat, result \in Nat] ==
    IF i >= 10 THEN Read(Throw(c, "VarintOverflow"), 0)
    ELSE IF c.pos + i >= Len(c.buf) THEN Read(Throw(c, "BufferTooShort"), 0)
    ELSE LET byte == c.buf[c.pos + i + 1]
             res == IF i < 4 THEN result + (byte % 128) * pow(2, 7 * i)
                    ELSE CHOOSE n \in {} : TRUE
         IN IF byte < 128 THEN Read([c EXCEPT !.pos = @ + i + 1], res)
            ELSE CoderReadVarint[c, i + 1, res]

\* readString: readData (readVarint, then readBytes) and TextDecoder.
CoderReadString[c \in Coders] ==
    IF c.err # "none" THEN Read(c, <<>>)
    ELSE LET data(l) == CoderReadBytes[l.c, l.v]
         IN data(CoderReadVarint[c, 0, 0])

\* The loop of readUInt8Map with l entries to go.  Map.set: a key already
\* present keeps its place and takes the new value.
readEntries[c \in Coders, l \in Nat, m \in Seq(Nat \X Seq(Nat))] ==
    IF l = 0 \/ c.err # "none" THEN Read(c, m)
    ELSE LET set(key, value) ==
                 IF \E i \in 1..Len(m) : m[i][1] = key
                 THEN [i \in 1..Len(m) |-> IF m[i][1] = key THEN <<key, value>> ELSE m[i]]
                 ELSE Append(m, <<key, value>>)
             entry(k, v) == readEntries[v.c, l - 1, set(IntOf(k.v), v.v)]
             keyed(k) == entry(k, CoderReadString[k.c])
         IN keyed(readInt["u8", c])

CoderReadUInt8Map[c \in Coders] ==
    LET entries(l) == readEntries[l.c, IntOf(l.v), <<>>]
    IN entries(readInt["u8", c])

CoderReadAll[c \in Coders] ==
    IF c.err # "none" THEN Read(c, <<>>)
    ELSE IF c.pos >= Len(c.buf) THEN Read(Throw(c, "BufferTooShort"), <<>>)
    ELSE Read([c EXCEPT !.pos = Len(c.buf)], SubSeq(c.buf, c.pos + 1, Len(c.buf)))

\* bytes() returns the buffer itself, all of its capacity.
CoderBytes(c) == c.buf

NewDecoder[bytes \in Seq(Nat)] == [CoderWriteBytes[NewCoder, bytes] EXCEPT !.pos = 0]

(***************************************************************************)
(* Packets and framing (src/src/packet.ts).                                *)
(***************************************************************************)
MID_LEN == 1023         \* 0x3ff
MAX_LEN == 1073741823   \* 0x3fffffff

CONNECT == 0
CONNACK == 1
MESSAGE == 2
MESSACK == 3
REQUEST == 4
RESPONSE == 5
PING == 6
PONG == 7
CLOSE == 15
PacketTypes == {CONNECT, CONNACK, MESSAGE, MESSACK, REQUEST, RESPONSE, PING, PONG, CLOSE}

ConnID == 1             \* Property.ConnID

qosMask == 128          \* 0x80
dupMask == 64           \* 0x40

\* A new packet object of a class: its type and the fields of every packet
\* class at the values the constructors give them by default.  The body
\* is the payload of a Message, the body of a Request and the data of a
\* Response.
Packet(type) ==
    [type |-> type, props |-> <<>>, version |-> 1,
     userID |-> <<>>, clientID |-> <<>>, password |-> <<>>,
     code |-> 0, id |-> 0, qos |-> 0, dup |-> FALSE, kind |-> 0,
     method |-> <<>>, body |-> <<>>]

\* The packet objects.
Packets ==
    [type : Nat, props : Seq(Nat \X Seq(Nat)), version : Nat,
     userID : Seq(Nat), clientID : Seq(Nat), password : Seq(Nat),
     code : Nat, id : Nat, qos : Nat, dup : BOOLEAN, kind : Nat,
     method : Seq(Nat), body : Seq(Nat)]

\* The calls a writeTo makes on the encoder, from the i-th on: each is the
\* method called ("u8": writeUInt8, "u16": writeUInt16, "str": writeString,
\* "map": writeUInt8Map, "bytes": writeBytes) and its argument.
RECURSIVE writeFields(_, _, _)
writeFields(e, calls, i) ==
    IF i > Len(calls) THEN e
    ELSE writeFields(CASE calls[i][1] \in {"u8", "u16"} ->
                            writeInt[calls[i][1], e, NumOf(calls[i][2])]
                       [] calls[i][1] = "str" -> CoderWriteString[e, calls[i][2]]
                       [] calls[i][1] = "map" -> CoderWriteUInt8Map[e, calls[i][2]]
                       [] calls[i][1] = "bytes" -> CoderWriteBytes[e, calls[i][2]],
                     calls, i + 1)

\* writeTo of the class of p; Message.writeTo throws MessageKindTooLarge
\* (field err) before it writes anything, and its flags byte is the or of
\* qosMask when qos > 0, dupMask when dup, and the kind: parts that share
\* no bit, so that the or is their sum.
writeTo(p, e) ==
    IF p.type = MESSAGE /\ p.kind > kindMask THEN Throw(e, "MessageKindTooLarge")
    ELSE writeFields(e,
           CASE p.type = CONNECT ->
                  <<<<"u8", p.version>>, <<"str", p.userID>>, <<"str", p.clientID>>,
                    <<"str", p.password>>, <<"map", p.props>>>>
             [] p.type = CONNACK -> <<<<"u8", p.code>>, <<"map", p.props>>>>
             [] p.type = MESSAGE ->
                  <<<<"u8", (IF p.qos > 0 THEN qosMask ELSE 0)
                            + (IF p.dup THEN dupMask ELSE 0) + p.kind>>,
                    <<"u16", p.id>>, <<"map", p.props>>, <<"bytes", p.body>>>>
             [] p.type = MESSACK -> <<<<"u16", p.id>>, <<"map", p.props>>>>
             [] p.type = REQUEST ->
                  <<<<"u16", p.id>>, <<"str", p.method>>, <<"map", p.props>>,
                    <<"bytes", p.body>>>>
             [] p.type = RESPONSE ->
                  <<<<"u16", p.id>>, <<"u8", p.code>>, <<"map", p.props>>,
                    <<"bytes", p.body>>>>
             [] p.type \in {PING, PONG} -> <<<<"map", p.props>>>>
             [] p.type = CLOSE -> <<<<"u8", p.code>>>>,
           1)

\* The reads a readFrom makes on decoder d, from the i-th on, and the
\* packet p they fill: each is the field assigned and the method called
\* ("u8": readUInt8, "u16": readUInt16, "str": readString, "map":
\* readUInt8Map, "all": readAll; "flags": readUInt8, taken apart into dup,
\* qos and kind by the masks).
readFields[d \in Coders, p \in Packets, reads \in Seq(Seq(STRING)), i \in Nat] ==
    IF i > Len(reads) THEN Read(d, p)
    ELSE LET field == reads[i][1]
             method == reads[i][2]
             flags(f) == [p EXCEPT !.dup = ((f \div dupMask) % 2 # 0),
                                   !.qos = (f \div qosMask) % 2,
                                   !.kind = f % (kindMask + 1)]
             assign(r) ==
                 readFields[r.c,
                            CASE method = "flags" -> flags(IntOf(r.v))
                              [] method \in {"u8", "u16"} -> [p EXCEPT ![field] = IntOf(r.v)]
                              [] OTHER -> [p EXCEPT ![field] = r.v],
                            reads, i + 1]
         IN assign(CASE method = "flags" -> readInt["u8", d]
                     [] method \in {"u8", "u16"} -> readInt[method, d]
                     [] method = "str" -> CoderReadString[d]
                     [] method = "map" -> CoderReadUInt8Map[d]
                     [] method = "all" -> CoderReadAll[d])

\* readFrom of the class of p (a new packet of that class), from decoder d.
\* The outcome is the decoder after the reads and the packet they filled.
readFrom(p, d) ==
    readFields[d, p,
               CASE p.type = CONNECT ->
                      <<<<"version", "u8">>, <<"userID", "str">>, <<"clientID", "str">>,
                        <<"password", "str">>, <<"props", "map">>>>
                 [] p.type = CONNACK -> <<<<"code", "u8">>, <<"props", "map">>>>
                 [] p.type = MESSAGE ->
                      <<<<"flags", "flags">>, <<"id", "u16">>, <<"props", "map">>,
                        <<"body", "all">>>>
                 [] p.type = MESSACK -> <<<<"id", "u16">>, <<"props", "map">>>>
                 [] p.type = REQUEST ->
                      <<<<"id", "u16">>, <<"method", "str">>, <<"props", "map">>,
                        <<"body", "all">>>>
                 [] p.type = RESPONSE ->
                      <<<<"id", "u16">>, <<"code", "u8">>, <<"props", "map">>,
                        <<"body", "all">>>>
                 [] p.type \in {PING, PONG} -> <<<<"props", "map">>>>
                 [] p.type = CLOSE -> <<<<"code", "u8">>>>,
               1]

\* The outcome of encode and decode: bytes or a packet, or the error thrown.
Ok(v) == [ok |-> TRUE, v |-> v, err |-> "none"]
Fail(error) == [ok |-> FALSE, v |-> <<>>, err |-> error]

\* coder.encode(ec): the bytes of a new encoder after ec.writeTo.
CoderEncode(p) ==
    LET bytes(e) == IF e.err # "none" THEN Fail(e.err) ELSE Ok(CoderBytes(e))
    IN bytes(writeTo(p, NewCoder))

\* coder.decode(bytes, dc)
CoderDecode(bytes, p) ==
    LET packet(r) == IF r.c.err # "none" THEN Fail(r.c.err) ELSE Ok(r.v)
    IN packet(readFrom(p, NewDecoder[bytes]))

\* The bytes bs of pack: len, most significant byte first, none for 0.
RECURSIVE lengthBytes(_)
lengthBytes(len) ==
    IF len > 0 THEN Append(lengthBytes(len \div 256), len % 256) ELSE <<>>

\* Variant: the most significant length byte is always put into byte 0.
packHeader_Fused(type, length) ==
    IF length > MID_LEN
    THEN LET bs == lengthBytes(length)
         IN [bs EXCEPT ![1] = (type * 16 + (Len(bs) - 2) * 4 + bs[1]) % 256]
    ELSE <<(type * 16 + length \div 256) % 256, length % 256>>

\* The header pack builds for a packet of the given type whose encoded
\* data has the given length (at most MAX_LEN).  The three parts or-ed
\* into byte 0 share no bit, so the or is their sum.
packHeader(type, length) ==
    IF length > MID_LEN
    THEN LET bs == lengthBytes(length)
             header == IF bs[1] > 3 THEN <<0>> \o bs ELSE bs
         IN [header EXCEPT ![1] = (type * 16 + (Len(header) - 2) * 4 + @) % 256]
    ELSE <<(type * 16 + length \div 256) % 256, length % 256>>

\* pack without the data: the header, or PacketSizeTooLarge.
packLength(type, length) ==
    IF length > MAX_LEN THEN Fail("PacketSizeTooLarge") ELSE Ok(packHeader(type, length))

\* encode(p): header and data in one array.
encode(p) ==
    LET framed(header, data) == IF ~header.ok THEN header ELSE Ok(header.v \o data.v)
        packed(data) == IF ~data.ok THEN data
                        ELSE framed(packLength(p.type, Len(data.v)), data)
    IN packed(CoderEncode(p))

\* The loop of decode over the extra length bytes.  (length << 8) | byte
\* is made on 32-bit signed integers: the shift keeps the low 24 bits of
\* length and the top one of them becomes the sign.
RECURSIVE extendLength(_, _, _, _)
extendLength(bytes, length, i, byteCount) ==
    IF i < byteCount
    THEN LET low == length % 16777216
             shifted == (IF low >= 8388608 THEN low - 16777216 ELSE low) * 256
         IN extendLength(bytes, shifted + bytes[3 + i], i + 1, byteCount)
    ELSE length

\* The header part of decode: the length it announces and where the data
\* starts, or InvalidReadLen.
decodeHeader(bytes) ==
    IF Len(bytes) < 2 THEN Fail("InvalidReadLen")
    ELSE LET byteCount == (bytes[1] \div 4) % 4
             length == (bytes[1] % 4) * 256 + bytes[2]
         IN IF byteCount > 0 /\ Len(bytes) < 2 + byteCount THEN Fail("InvalidReadLen")
            ELSE Ok([type |-> bytes[1] \div 16,
                     length |-> extendLength(bytes, length, 0, byteCount),
                     dataStart |-> 2 + byteCount])

\* Uint8Array.slice(start, end) for start >= 0: a negative end counts from
\* the end of the array.
slice(bytes, start, end) ==
    LET n == Len(bytes)
        from == IF start > n THEN n ELSE start
        to == IF end < 0 THEN (IF n + end < 0 THEN 0 ELSE n + end)
              ELSE IF end > n THEN n ELSE end
    IN IF to > from THEN SubSeq(bytes, from + 1, to) ELSE <<>>

unpack(type, data) ==
    IF type \in PacketTypes THEN CoderDecode(data, Packet(type))
    ELSE Fail("UnknownPacketType")

decode(bytes) ==
    LET data(h) ==
            IF ~h.ok THEN h
            ELSE IF Len(bytes) < h.v.dataStart + h.v.length THEN Fail("InvalidReadLen")
            ELSE unpack(h.v.type, slice(bytes, h.v.dataStart, h.v.dataStart + h.v.length))
    IN data(decodeHeader(bytes))

(***************************************************************************)
(* SpecCodec: the codec and the framing at work.  A packet is encoded and  *)
(* the frame decoded again; a frame the peer made is decoded; an integer   *)
(* is written by one coder and read by another; a header is packed for a   *)
(* length and taken apart.  The session engine rests.                      *)
(***************************************************************************)
\* The packets given to encode.  Strings have one letter, bodies up to
\* MaxBody bytes ('A', 'B', ...); a property map is empty, holds one short
\* property, or (full) holds one property whose value makes the map end
\* where a new buffer ends when three bytes of fields come before it.
OutPackets ==
    LET Body(k) == [i \in 1..k |-> 64 + i]
        some == {<<>>, <<<<ConnID, <<120>>>>>>}
        full == <<<<ConnID, Fill(DefaultCap - 7, 120)>>>>
    IN {[Packet(CONNECT) EXCEPT !.userID = <<117>>, !.clientID = <<99>>, !.password = <<112>>,
                                !.props = m] : m \in some}
       \cup {Packet(CONNECT)}
       \cup {[Packet(CONNACK) EXCEPT !.code = c, !.props = m] : c \in {Accepted, Rejected}, m \in some}
       \cup {[Packet(MESSAGE) EXCEPT !.id = i, !.qos = q, !.kind = k, !.dup = d] :
                i \in {0, 456, 65535}, q \in {0, 1}, k \in 0..(kindMask + 1), d \in BOOLEAN}
       \cup {[Packet(MESSAGE) EXCEPT !.id = 456, !.qos = 1, !.kind = k, !.body = Body(n),
                                     !.dup = d, !.props = m] :
                k \in {0, 60}, n \in 0..MaxBody, d \in BOOLEAN, m \in some \cup {full}}
       \cup {[Packet(MESSACK) EXCEPT !.id = i, !.props = m] : i \in {0, 456, 65535}, m \in some}
       \cup {[Packet(REQUEST) EXCEPT !.id = i, !.method = <<109>>, !.body = Body(n), !.props = m] :
                i \in {0, 456, 65535}, n \in 0..MaxBody, m \in some}
       \cup {[Packet(RESPONSE) EXCEPT !.id = i, !.code = c, !.body = Body(n), !.props = m] :
                i \in {0, 456, 65535}, c \in {OK, NotFound}, n \in 0..MaxBody,
                m \in some \cup {full}}
       \cup {[Packet(t) EXCEPT !.props = m] : t \in {PING, PONG}, m \in some}
       \cup {[Packet(CLOSE) EXCEPT !.code = c] : c \in CloseCodes \cup {NoHeartbeat}}

\* Frames as a peer may send them: the nine types and two that are none,
\* length bits that announce LL in {0, 1, 3} extra bytes, and up to MaxTail
\* bytes after the first two; and the frames too short to hold two bytes.
InFrames ==
    {<<>>} \cup {<<t * 16>> : t \in {PING, CLOSE}}
    \cup {<<t * 16 + ll * 4 + xx, b1>> \o tail :
             t \in PacketTypes \cup {8, 14}, ll \in {0, 1, 3}, xx \in {0, 3}, b1 \in {0, 1, 255},
             tail \in UNION {[1..n -> {0, 1}] : n \in 0..MaxTail}}

\* The legal values of an integer type taken here: the bit patterns zero,
\* one, the largest positive signed value, the top bit alone and all ones
\* (for eight bytes also 2^32 - 1 and 2^53 + 1), read as unsigned or as
\* two's complement.
Values(ty) ==
    LET w == CASE ty \in {"u8", "i8"} -> 1 [] ty \in {"u16", "i16"} -> 2
               [] ty \in {"u32", "i32"} -> 4 [] ty \in {"u64", "i64"} -> 8
        patterns == {Fill(w, 0), Fill(w - 1, 0) \o <<1>>, <<127>> \o Fill(w - 1, 255),
                     <<128>> \o Fill(w - 1, 0), Fill(w, 255)}
                    \cup (IF w = 8 THEN {Fill(4, 0) \o Fill(4, 255), <<0, 32, 0, 0, 0, 0, 0, 1>>}
                          ELSE {})
    IN IF ty \in {"u8", "u16", "u32", "u64"} THEN {UNum(p) : p \in patterns}
       ELSE {SNum(p) : p \in patterns}

\* Lengths of encoded data: the ends of the header's regimes and the
\* capacities a coder's buffer takes.
Lengths ==
    {0, 1, MID_LEN, MID_LEN + 1, 65535, 65536, 262143, 262144, 16777215, 16777216,
     67108863, 67108864, MAX_LEN, MAX_LEN + 1}
    \cup {DefaultCap * pow(2, k) : k \in 0..22}

Step(c) ==
    /\ codec' = c
    /\ UNCHANGED <<url, status, identity, conn, socks, pingTimer, pingTimeoutTimer, orphans,
                   pongReceived, requestTasks, messageTasks, messageId, requestId,
                   retrying, retrier, retryTimers, msgOps, reqOps, delivered>>

Encode(p) ==
    /\ codec.op = "idle"
    /\ Step([codec EXCEPT !.op = "encoded", !.pkt = p, !.bytes = encode(p)])

Decode ==
    /\ codec.op = "encoded" /\ codec.bytes.ok
    /\ Step([codec EXCEPT !.op = "decoded", !.res = decode(codec.bytes.v)])

Receive(frame) ==
    /\ codec.op = "idle"
    /\ Step([codec EXCEPT !.op = "received", !.bytes = Ok(frame), !.res = decode(frame)])

WriteInt(ty, x) ==
    /\ codec.op = "idle"
    /\ Step([codec EXCEPT !.op = "written", !.ty = ty, !.val = x,
                          !.bytes = Ok(CoderBytes(writeInt[ty, NewCoder, x]))])

ReadInt ==
    /\ codec.op = "written"
    /\ LET r == readInt[codec.ty, NewDecoder[codec.bytes.v]]
       IN Step([codec EXCEPT !.op = "read",
                             !.res = IF r.c.err # "none" THEN Fail(r.c.err) ELSE Ok(r.v)])

Pack(type, length) ==
    /\ codec.op = "idle"
    /\ Step([codec EXCEPT !.op = "packed", !.pkt = Packet(type), !.len = length,
                          !.bytes = packLength(type, length)])

DecodeHeader ==
    /\ codec.op = "packed" /\ codec.bytes.ok
    /\ Step([codec EXCEPT !.op = "unpacked", !.res = decodeHeader(codec.bytes.v)])

NextCodec ==
    \/ \E p \in OutPackets : Encode(p)
    \/ Decode
    \/ \E frame \in InFrames : Receive(frame)
    \/ \E ty \in {"u8", "u16", "u32", "u64", "i8", "i16", "i32", "i64"} :
          \E x \in Values(ty) : WriteInt(ty, x)
    \/ ReadInt
    \/ \E type \in PacketTypes, length \in Lengths : Pack(type, length)
    \/ DecodeHeader

InitCodec == Init /\ url = "ok"

SpecCodec == InitCodec /\ [][NextCodec]_vars

(***************************************************************************)
(* Properties.                                                             *)
(***************************************************************************)
Messack(id) == Pkt("Messack", id, 0, 0, FALSE, 0)
Response(n, code) == Pkt("Response", writeUInt16(n), code, 0, FALSE, n)
Connack(code) == Pkt("Connack", 0, code, 0, FALSE, 0)
CloseFrame(code) == Pkt("Close", 0, code, 0, FALSE, 0)
Frame(c, p) == [conn |-> c, pkt |-> p]

\* C1: in every status other than Opened a send (QoS 0 or QoS 1) or a
\* request fails at once with NotReady, hands no frame to the transport and
\* leaves request_tasks and message_tasks as they were.
C1_Rejected(t) ==
    /\ t.ret = NotReady
    /\ t.out = <<>>
    /\ requestTasks' = requestTasks
    /\ messageTasks' = messageTasks
    /\ \A n \in MsgKeys : ~msgOps'[n].timer \/ msgOps[n].timer
    /\ \A n \in ReqKeys : ~reqOps'[n].timer \/ reqOps[n].timer

C1_NotReadyWhenNotOpened ==
    [][/\ \A qos \in {0, 1} :
            (status # Opened /\ Send(qos, 60)) => C1_Rejected(send(Cur, qos, 60))
       /\ (status # Opened /\ Request(FALSE)) => C1_Rejected(request(Cur, FALSE))
       /\ \A n \in MsgKeys :
            (status # Opened /\ Send(1, 60) /\ n = messageId) => msgOps'[n].res = NotReady
       /\ \A n \in ReqKeys :
            (status # Opened /\ Request(FALSE) /\ n = requestId) => reqOps'[n].res = NotReady]_vars

\* A QoS-1 send and a request were both rejected, in a session that is not open.
C1_Witness ==
    /\ status \in {Opening, Closed}
    /\ msgOps[0].res = NotReady
    /\ reqOps[0].res = NotReady

\* C2: a Messack that carries the id of the Message frame of a pending
\* QoS-1 send, and arrives before the send's timer expires, completes the
\* send and removes its message_tasks entry; for every send of a session.
C2_MessackCompletesSend ==
    [][\A n \in MsgKeys :
          (/\ status = Opened /\ conn \in Socks
           /\ msgOps[n].res = Pending /\ msgOps[n].timer /\ n \in messageTasks
           /\ WsMessage(conn, Messack(msgOps[n].wid), FALSE))
          => (msgOps'[n].res = Resolved /\ n \notin messageTasks')]_vars

\* C3: with two requests a and b pending together, the Response to b (which
\* carries the id of b's Request frame) resolves b with it and leaves a alone.
C3_OwnResponse ==
    [][\A a \in ReqKeys, b \in ReqKeys :
          (/\ a # b /\ status = Opened /\ conn \in Socks
           /\ reqOps[a].res = Pending /\ a \in requestTasks
           /\ reqOps[b].res = Pending /\ b \in requestTasks
           /\ WsMessage(conn, Response(b, OK), FALSE))
          => (reqOps'[b].res = Res("resolved", b) /\ reqOps'[a].res = Pending)]_vars

\* C4: the first transmission of a QoS-1 send carries dup = false; each
\* expiry of its timer while the session is Opened and retries remain writes
\* the message again with dup = true and the id of the frame before; no
\* other expiry writes anything; at most messageMaxRetry retransmissions
\* are written for one send.
C4_First ==
    \A n \in MsgKeys :
        (status = Opened /\ conn \in Socks /\ n = messageId /\ Send(1, 60))
        => /\ send(Cur, 1, 60).out = <<Frame(conn, Pkt("Message", msgOps'[n].wid, 60, 1, FALSE, 0))>>
           /\ msgOps'[n].tx = 1

C4_Again ==
    \A n \in MsgKeys :
        MessageTimerFires(n) =>
            IF status = Opened /\ conn \in Socks /\ msgOps[n].res = Pending
               /\ msgOps[n].tx <= messageMaxRetry
            THEN /\ messageTimeout(Cur, n).out =
                        <<Frame(conn, Pkt("Message", msgOps[n].wid, msgOps[n].kind, 1, TRUE, 0))>>
                 /\ msgOps'[n].wid = msgOps[n].wid
                 /\ msgOps'[n].tx = msgOps[n].tx + 1
                 /\ msgOps'[n].res = Pending
            ELSE /\ messageTimeout(Cur, n).out = <<>>
                 /\ msgOps'[n].tx = msgOps[n].tx

C4_Retransmission ==
    /\ [](\A n \in MsgKeys : msgOps[n].tx <= 1 + messageMaxRetry)
    /\ [][C4_First /\ C4_Again]_vars

\* A send has been retransmitted as often as messageMaxRetry allows.
C4_Witness ==
    \E n \in MsgKeys : msgOps[n].tx = 1 + messageMaxRetry /\ msgOps[n].dup /\ status = Opened

\* C5: when the timer of a QoS-1 send expires after its last retransmission,
\* in a session that stayed Opened, the caller's future fails with MessageTimeout.
C5_FinalMessageTimeout ==
    [][\A n \in MsgKeys :
          (/\ status = Opened /\ msgOps[n].res = Pending
           /\ msgOps[n].retries = messageMaxRetry
           /\ MessageTimerFires(n))
          => msgOps'[n].res = MessageTimeout]_vars


NoPendingAfter ==
    /\ \A n \in MsgKeys : msgOps'[n].res # Pending
    /\ \A n \in ReqKeys : reqOps'[n].res # Pending

\* C6: whenever the session enters Closed, by close() or by a failure that
\* is not retried, every pending request and QoS-1 send is failed in that
\* step; none is left pending.
C6_ClosedFailsPending ==
    [][(status # Closed /\ status' = Closed) => NoPendingAfter]_vars

\* The step raises the failure reason r (it calls retryWhen with it).
Raises(r) ==
    \/ /\ r = NetworkError
       /\ \E c \in Socks : \/ socks'[c] = "errored" /\ WsError(c)
                           \/ socks'[c] = "closed" /\ WsClose(c)
                           \/ WsMessage(c, Pkt("Garbage", 0, 0, 0, FALSE, 0), FALSE)
    \/ /\ r = ConnectFailed(Rejected)
       /\ \E c \in Socks : WsMessage(c, Connack(Rejected), FALSE)
    \/ /\ r.tag = "ServerClosed"
       /\ \E c \in Socks : WsMessage(c, CloseFrame(r.code), FALSE)
    \/ /\ r = PingTimeout
       /\ ~pongReceived
       /\ PingTimeoutFires \/ OrphanPingTimeoutFires

Reasons ==
    {NetworkError, ConnectFailed(Rejected), ServerClosed(Kickout), ServerClosed(NoHeartbeat),
     PingTimeout}

\* C7: when a failure reason R takes the session from Opened to Opening,
\* every request and QoS-1 send pending at that moment is failed with R in
\* that step and its timer is cancelled.
C7_ReconnectFailsPending ==
    [][\A r \in Reasons :
          (status = Opened /\ status' = Opening /\ Raises(r))
          => /\ \A n \in MsgKeys : msgOps[n].res = Pending
                    => (msgOps'[n].res = r /\ ~msgOps'[n].timer)
             /\ \A n \in ReqKeys : reqOps[n].res = Pending
                    => (reqOps'[n].res = r /\ ~reqOps'[n].timer)]_vars

\* C8: a failure reason raised in Opening or Opened with no reconnect
\* scheduled closes the session when no retry controller is installed or
\* the controller declines; otherwise the session is Opening with exactly
\* one reconnect timer, armed with the controller's delay.  When the timer
\* elapses in Opening (and the URL is one a transport can be made for) a
\* new transport is opened; in any other status nothing is opened.
C8_Declines(r) ==
    \/ retrier = NoRetrier
    \/ retrier.filter = "serverClosed" /\ r \in {ServerClosed(c) : c \in CloseCodes}
    \/ retrier.count >= retrier.limit

C8_Delays ==
    IF retrier.backoff = "const" THEN {5000}
    ELSE {900 * pow(2, retrier.count), 1100 * pow(2, retrier.count)}

C8_Raised ==
    \A r \in Reasons :
        (status \in {Opening, Opened} /\ ~retrying /\ Raises(r))
        => IF C8_Declines(r)
           THEN status' = Closed /\ retryTimers' = <<>> /\ ~retrying' /\ conn' = NoConn
           ELSE /\ status' = Opening /\ retrying'
                /\ Len(retryTimers') = 1 /\ retryTimers'[1] \in C8_Delays
                /\ retrier'.count = retrier.count + 1

C8_Elapsed ==
    \A i \in 1..Len(retryTimers) :
        RetryTimerFires(i)
        => /\ retryTimers' = <<>>
           /\ ~retrying'
           /\ (status = Opening /\ url = "ok")
                 => /\ conn' \in Socks /\ socks[conn'] = "none"
                    /\ socks'[conn'] = "connecting" /\ status' = Opening
           /\ status # Opening => (conn' = conn /\ socks' = socks /\ status' = status)

C10_CloseFrameWritten ==
    [][\A code \in CloseCodes \ {Normal} :
          (status = Opened /\ conn \in Socks /\ Close(code))
          => (close(Cur, code).out = <<Frame(conn, CloseFrame(code))>>
              /\ status' = Closed)]_vars

\* C11: close in Opening or Opened reports Closing and then Closed to
\* onStatus within the call, leaves the session Closed with no heartbeat
\* timer armed (the interval and every ping-timeout timer) and with no
\* transport (the one it had is closed); close in Closing or Closed changes
\* nothing and calls onStatus not at all.
C11_Closes ==
    \A code \in CloseCodes \cup {NoCode} :
        (status \in {Opening, Opened} /\ Close(code))
        => /\ close(Cur, code).notified = <<Closing, Closed>>
           /\ status' = Closed
           /\ ~pingTimer' /\ pingTimeoutTimer' # "armed" /\ orphans' = 0
           /\ conn' = NoConn
           /\ conn # NoConn => socks'[conn] \notin {"connecting", "open"}

C11_CloseStopsSession ==
    /\ [](status \in {Closing, Closed}
            => \A code \in CloseCodes \cup {NoCode} : close(Cur, code) = Cur)
    /\ [][C11_Closes]_vars

\* C12: connect called in Opening or Opened changes nothing: the status, the
\* identity, the transport, every timer and the retry count are as before,
\* no transport is created and onStatus is not called.
C12_ConnectIdempotent ==
    (status \in {Opening, Opened})
    => \A ident \in Identities, u \in JitterFor(Cur) : connect(Cur, ident, u) = Cur

\* A session that waits for its reconnect timer with the heartbeat timers
\* of the stay before still armed: connect must keep its hands off all of it.
C12_Witness ==
    /\ status = Opening /\ retrying /\ Len(retryTimers) = 1 /\ retrier.count = 1
    /\ identity = "alice" /\ pingTimer /\ pingTimeoutTimer = "armed"

\* C13: a QoS-1 Message written during one stay in Opened is not written
\* again once the session has left that stay: after a reconnect or a close()
\* followed by connect() no step writes a frame of it.  (A Request is
\* written once, in the call that submits it.)
C13_NoFrameAcrossSessions ==
    [][\A n \in MsgKeys :
          msgOps[n].left
          => /\ msgOps'[n].tx = msgOps[n].tx
             /\ MessageTimerFires(n) => messageTimeout(Cur, n).out = <<>>]_vars

PingFrame == Pkt("Ping", 0, 0, 0, FALSE, 0)
PongFrame == Pkt("Pong", 0, 0, 0, FALSE, 0)

\* C14: in Opened a heartbeat tick sets pong_received to false, writes one
\* Ping and arms a ping-timeout timer; a ping-timeout timer that fires with
\* pong_received false hands PingTimeout to the retry decision (with no
\* reconnect pending the session leaves Opened and, if retried, one
\* reconnect timer is armed); a Pong sets pong_received and cancels the
\* timer of every Ping written before it, so none of them raises PingTimeout.
C14_Tick ==
    (status = Opened /\ conn \in Socks /\ PingIntervalFires)
    => /\ ~pongReceived'
       /\ pingTick(Cur).out = <<Frame(conn, PingFrame)>>
       /\ pingTimeoutTimer' = "armed"

C14_Expiry ==
    (status = Opened /\ ~retrying /\ ~pongReceived /\ Raises(PingTimeout))
    => /\ status' \in {Opening, Closed}
       /\ status' = Opening => (retrying' /\ Len(retryTimers') = 1)
       /\ status' = Closed <=> C8_Declines(PingTimeout)

C14_Pong ==
    \A c \in Socks :
        WsMessage(c, PongFrame, FALSE)
        => /\ pongReceived'
           /\ pingTimeoutTimer' # "armed" /\ orphans' = 0

C14_Heartbeat == [][C14_Tick /\ C14_Expiry /\ C14_Pong]_vars

\* C15: for a request written in Opened and still pending, the Response
\* that carries the id of its frame settles the caller (code OK: resolved
\* with that Response; any other code: failed with the error named after
\* the code) and the expiry of its timer fails the caller with
\* RequestTimeout; either way the request_tasks entry is removed, and a
\* Response that finds no entry changes nothing.
C15_Answered ==
    \A n \in ReqKeys, code \in {OK, NotFound} :
        (/\ status = Opened /\ conn \in Socks
         /\ reqOps[n].res = Pending /\ reqOps[n].timer /\ n \in requestTasks
         /\ WsMessage(conn, Response(n, code), FALSE))
        => /\ reqOps'[n].res = IF code = OK THEN Res("resolved", n)
                                ELSE Res("StatusCode", code)
           /\ ~reqOps'[n].timer
           /\ n \notin requestTasks'

C15_Expired ==
    \A n \in ReqKeys :
        (reqOps[n].res = Pending /\ RequestTimerFires(n))
        => (reqOps'[n].res = RequestTimeout /\ n \notin requestTasks')

C15_Late ==
    \A n \in ReqKeys, c \in Socks, code \in {OK, NotFound} :
        (requestTasks = {} /\ WsMessage(c, Response(n, code), FALSE))
        => UNCHANGED vars

C15_RequestOutcome == [][C15_Answered /\ C15_Expired /\ C15_Late]_vars

\* C16: the id in the frame of the k-th request (QoS-1 send) is k modulo
\* 2^16, each counter advancing by one per operation and leaving the other
\* alone; so two requests pending together carry different ids, two pending
\* QoS-1 messages likewise, and no table holds two entries for one 16-bit id.
C16_Distinct ==
    /\ \A a \in ReqKeys, b \in ReqKeys :
          (a # b /\ a \in requestTasks /\ b \in requestTasks)
          => RequestFrame(a).id # RequestFrame(b).id
    /\ \A a \in MsgKeys, b \in MsgKeys :
          (a # b /\ a \in messageTasks /\ b \in messageTasks
           /\ msgOps[a].tx > 0 /\ msgOps[b].tx > 0)
          => msgOps[a].wid # msgOps[b].wid

C16_Counters ==
    /\ (status = Opened /\ conn \in Socks /\ Request(FALSE))
          => /\ request(Cur, FALSE).out[1].pkt.id = requestId % UInt16
             /\ requestId' = requestId + 1 /\ messageId' = messageId
    /\ (status = Opened /\ conn \in Socks /\ Send(1, 60))
          => /\ send(Cur, 1, 60).out[1].pkt.id = messageId % UInt16
             /\ messageId' = messageId + 1 /\ requestId' = requestId

C16_SixteenBitIds == []C16_Distinct /\ [][C16_Counters]_vars

\* C17: shouldRetry(reason) returns (0, false) and keeps count when the
\* filter is true of the reason, and when count >= limit; otherwise it adds
\* one to count and returns (backoff.next(count) * 1000, true).  With the
\* filter that is true of ServerClosed(Normal, Kickout, AuthFailure) such a
\* server close ends the session in Closed and every other reason is retried.
C17_Reasons == Reasons \cup {ServerClosed(c) : c \in CloseCodes}

C17_Suppressed(reason) ==
    retrier.filter = "serverClosed" /\ reason \in {ServerClosed(c) : c \in CloseCodes}

C17_Function ==
    retrier # NoRetrier
    => \A reason \in C17_Reasons, u \in JitterFor(Cur) :
          LET r == shouldRetry(retrier, reason, u)
          IN IF C17_Suppressed(reason) \/ retrier.count >= retrier.limit
             THEN r = [delay |-> 0, ok |-> FALSE, retrier |-> retrier]
             ELSE /\ r.ok
                  /\ r.retrier = [retrier EXCEPT !.count = retrier.count + 1]
                  /\ r.delay \in C8_Delays

C17_Filtered ==
    \A reason \in Reasons :
        (/\ retrier # NoRetrier /\ retrier.filter = "serverClosed"
         /\ status \in {Opening, Opened} /\ ~retrying /\ Raises(reason))
        => IF reason \in {ServerClosed(Kickout)}
           THEN status' = Closed /\ retrier' = retrier /\ retryTimers' = retryTimers
           ELSE status' = Opening /\ retrier'.count = retrier.count + 1

C18_FirstDelays ==
    IF retrier.backoff = "const" THEN {<<5000>>} ELSE {<<900>>, <<1100>>}

C18_Entered == (status # Opened /\ status' = Opened) => retrier'.count = 0

C18_NextFailure ==
    \A r \in Reasons :
        (/\ status = Opened /\ ~retrying /\ retrier # NoRetrier
         /\ ~C17_Suppressed(r) /\ Raises(r))
        => (status' = Opening /\ retryTimers' \in C18_FirstDelays /\ retrier'.count = 1)

C18_OpenedResetsRetrier ==
    /\ [](status = Opened => retrier.count = 0)
    /\ [][C18_Entered /\ C18_NextFailure]_vars

\* The session is Opened again, on a second transport, after a ping timeout
\* of the first stay was retried.
C18_Witness ==
    /\ status = Opened /\ conn = 2 /\ ~retrying
    /\ retrier # NoRetrier /\ retrier.count = 0
    /\ pingTimeoutTimer = "spent" /\ ~pongReceived

InMessage(qos) == Pkt("Message", 7, 0, qos, FALSE, 0)

\* C19: a Message received in Opened is handed to onMessage exactly once;
\* when its qos is 1 and the handler has returned, one Messack with the
\* Message's id is written to the transport; when its qos is 0 nothing is
\* written.  The session is otherwise untouched.
C19_MessageDelivery ==
    [][\A c \in Socks, qos \in {0, 1}, u \in JitterFor(Cur) :
          (status = Opened /\ conn \in Socks /\ WsMessage(c, InMessage(qos), FALSE))
          => LET t == onWebSocketData(Cur, InMessage(qos), FALSE, u)
             IN /\ t.calls = <<InMessage(qos)>>
                /\ delivered'
                /\ t.out = IF qos = 1 THEN <<Frame(conn, Messack(7))>> ELSE <<>>
                /\ ~t.thrown
                /\ status' = Opened /\ conn' = conn]_vars

\* An inbound packet has been handed to the handler of an open session.
C19_Witness ==
    status = Opened /\ delivered /\ conn \in Socks /\ socks[conn] = "open"

GarbageFrame == Pkt("Garbage", 0, 0, 0, FALSE, 0)

\* C20: an inbound frame that does not decode throws nothing to the host
\* and reaches no handler; NetworkError goes to the retry decision, which
\* fails the pending operations with it and closes or retries the session
\* exactly as for an error event of that transport.
C20_AsTransportError(c) ==
    \E u \in JitterFor(Cur) :
        LET a == onWebSocketData(Cur, GarbageFrame, FALSE, u)
            b == retryWhen([Cur EXCEPT !.socks[c] = "errored"], NetworkError, u)
        IN /\ ~a.thrown /\ a.calls = <<>> /\ a.out = <<>>
           /\ a.notified = b.notified
           /\ status' = b.status /\ conn' = b.conn
           /\ retrier' = b.retrier /\ retrying' = b.retrying /\ retryTimers' = b.retryTimers
           /\ requestTasks' = b.requestTasks /\ messageTasks' = b.messageTasks
           /\ reqOps' = b.reqOps
           /\ \A n \in MsgKeys : /\ msgOps'[n].res = b.msgOps[n].res
                                  /\ msgOps'[n].timer = b.msgOps[n].timer
           /\ pingTimer' = b.pingTimer /\ pingTimeoutTimer' = b.pingTimeoutTimer

C20_Effect ==
    ~retrying
    => /\ \A n \in ReqKeys : (n \in requestTasks /\ reqOps[n].res = Pending)
              => (reqOps'[n].res = NetworkError /\ ~reqOps'[n].timer)
       /\ \A n \in MsgKeys : (n \in messageTasks /\ msgOps[n].res = Pending)
              => (msgOps'[n].res = NetworkError /\ ~msgOps'[n].timer)
       /\ requestTasks' = {} /\ messageTasks' = {}
       /\ status \in {Opening, Opened}
              => IF C8_Declines(NetworkError)
                 THEN status' = Closed /\ conn' = NoConn
                 ELSE status' = Opening /\ retrying' /\ Len(retryTimers') = 1

C20_Decided ==
    (status \in {Opening, Opened} /\ ~retrying)
    => \A u \in JitterFor(Cur) :
          LET a == onWebSocketData(Cur, GarbageFrame, FALSE, u)
          IN /\ ~a.thrown
             /\ a.status = IF C8_Declines(NetworkError) THEN Closed ELSE Opening
             /\ a.requestTasks = {} /\ a.messageTasks = {}

C20_DecodeFailure ==
    /\ []C20_Decided
    /\ [][\A c \in Socks :
            WsMessage(c, GarbageFrame, FALSE) => (C20_AsTransportError(c) /\ C20_Effect)]_vars

\* An undecodable frame has closed a session that had no retry controller
\* and failed its pending request with NetworkError; the transport was
\* open until then.
C20_Witness ==
    /\ status = Closed /\ retrier = NoRetrier
    /\ socks[1] = "closing" /\ socks[2] = "none"
    /\ reqOps[0].res = NetworkError

InRequest == Pkt("Request", 0, 0, 0, FALSE, 0)

\* C21: an exception thrown by onMessage or onRequest while an inbound
\* frame is dispatched leaves the inbound-frame callback: the engine does
\* not catch it.
C21_HandlerExceptionSurfaces ==
    [][\A c \in Socks, p \in {InMessage(0), InMessage(1), InRequest}, u \in JitterFor(Cur) :
          WsMessage(c, p, TRUE)
          => LET t == onWebSocketData(Cur, p, TRUE, u)
             IN t.calls = <<p>> /\ t.thrown]_vars

\* C22: a QoS-0 send in Opened writes one Message frame with id 0 and
\* dup = false to the transport and completes in the call; it adds nothing
\* to message_tasks, arms no timer and leaves the message id counter (and
\* everything else of the client) as it was.
C22_Qos0Send ==
    (status = Opened /\ conn \in Socks)
    => \A kind \in 0..kindMask :
          LET t == send(Cur, 0, kind)
          IN /\ t.out = <<Frame(conn, Pkt("Message", 0, kind, 0, FALSE, 0))>>
             /\ t.ret = Resolved
             /\ t.messageTasks = messageTasks /\ t.requestTasks = requestTasks
             /\ t.messageId = messageId /\ t.requestId = requestId
             /\ t.msgOps = msgOps /\ t.reqOps = reqOps
             /\ [t EXCEPT !.out = <<>>, !.ret = NoCall] = Cur

\* An open session with a QoS-1 send pending (entry, timer, counter at 1)
\* and a request rejected before: what a QoS-0 send must leave alone.
C22_Witness ==
    /\ status = Opened /\ conn = 2 /\ socks[2] = "open"
    /\ messageId = 1 /\ messageTasks = {0} /\ msgOps[0].timer /\ msgOps[0].res = Pending
    /\ requestId = 1 /\ reqOps[0].res = NotReady

\* C23: a packet that was encoded and then decoded comes back as the same
\* packet: same type, fields, flag bits, property map and, for Message,
\* Request and Response, the same payload bytes.
C23_RoundTrip ==
    codec.op = "decoded" => (codec.res.ok /\ codec.res.v = codec.pkt)

\* C24: a Close packet encodes to exactly three bytes: the type in the
\* high nibble with zero length bits, the length 1, the code.
C24_CloseThreeBytes ==
    (codec.op = "encoded" /\ codec.pkt.type = CLOSE)
    => codec.bytes = Ok(<<CLOSE * 16, 1, codec.pkt.code>>)

\* The LL bits of a header.
LL(header) == (header[1] \div 4) % 4

announced(bytes) == <<bytes[1] % 4, bytes[2]>> \o SubSeq(bytes, 3, 2 + LL(bytes))

\* a < b for numbers given as byte sequences of one length
RECURSIVE bytesLess(_, _)
bytesLess(a, b) ==
    IF a = <<>> THEN FALSE
    ELSE IF a[1] # b[1] THEN a[1] < b[1]
    ELSE bytesLess(Tail(a), Tail(b))

\* The number n < 2^16 as a byte sequence of length k >= 2.
asBytes(n, k) == Fill(k - 2, 0) \o <<n \div 256, n % 256>>

\* A frame is short: it has fewer than two bytes, fewer than the extra
\* length bytes it announces, or fewer bytes after the header than the
\* length it announces.
shortFrame(bytes) ==
    \/ Len(bytes) < 2
    \/ Len(bytes) < 2 + LL(bytes)
    \/ bytesLess(asBytes(Len(bytes) - 2 - LL(bytes), 2 + LL(bytes)), announced(bytes))

\* C26: decoding a short frame fails with InvalidReadLen, decoding a frame
\* of a type that is none of the nine fails with UnknownPacketType, and no
\* packet is returned.
C26_FrameErrors ==
    codec.op = "received"
    => LET bytes == codec.bytes.v
       IN /\ shortFrame(bytes) => codec.res = Fail("InvalidReadLen")
          /\ (~shortFrame(bytes) /\ bytes[1] \div 16 \notin PacketTypes)
             => codec.res = Fail("UnknownPacketType")

\* C27: a Message of kind at most 63 encodes with the flags byte
\* qos<<7 | dup<<6 | kind followed by the id (two bytes), and decoding
\* gives back qos, dup, kind and id; a Message of a larger kind fails with
\* MessageKindTooLarge and gives no frame.
C27_MessageFlags ==
    /\ (codec.op \in {"encoded", "decoded"} /\ codec.pkt.type = MESSAGE /\ codec.pkt.kind > kindMask)
       => codec.bytes = Fail("MessageKindTooLarge")
    /\ (codec.op \in {"encoded", "decoded"} /\ codec.pkt.type = MESSAGE /\ codec.pkt.kind <= kindMask)
       => /\ codec.bytes.ok
          /\ LET h == decodeHeader(codec.bytes.v)
                 p == codec.pkt
             IN SubSeq(codec.bytes.v, h.v.dataStart + 1, h.v.dataStart + 3)
                  = <<p.qos * 128 + (IF p.dup THEN 64 ELSE 0) + p.kind, p.id \div 256, p.id % 256>>
    /\ (codec.op = "decoded" /\ codec.pkt.type = MESSAGE)
       => /\ codec.res.ok
          /\ codec.res.v.qos = codec.pkt.qos /\ codec.res.v.dup = codec.pkt.dup
          /\ codec.res.v.kind = codec.pkt.kind /\ codec.res.v.id = codec.pkt.id

\* C28: an integer of a fixed-width type that was written is read back as
\* the same value.
C28_IntegerRoundTrip ==
    codec.op = "read" => codec.res = Ok(codec.val)

\* The bytes the fields of a packet take at the least, by readFrom: every
\* string and the property map at least one byte.
fixedFields(type) ==
    CASE type = CONNECT -> 5 [] type = CONNACK -> 2 [] type = MESSAGE -> 4
      [] type = MESSACK -> 3 [] type = REQUEST -> 4 [] type = RESPONSE -> 4
      [] type \in {PING, PONG} -> 1 [] type = CLOSE -> 1

\* C29: decoding a frame whose payload has fewer bytes than the fixed
\* fields of its packet fails with BufferTooShort and yields no packet.
C29_BufferTooShort ==
    (/\ codec.op = "received"
     /\ ~shortFrame(codec.bytes.v)
     /\ codec.bytes.v[1] \div 16 \in PacketTypes
     /\ Len(codec.bytes.v) - 2 - LL(codec.bytes.v) < fixedFields(codec.bytes.v[1] \div 16))
    => codec.res = Fail("BufferTooShort")

\* C30: a heartbeat timer that fires while the session is not in Opened
\* was armed in a stay in Opened that is over, and changes nothing of the
\* session: not its status, its transports, its retry state or its tables.
C30_TimersScopedToOpened ==
    [][(status # Opened /\ (PingIntervalFires \/ PingTimeoutFires \/ OrphanPingTimeoutFires))
       => UNCHANGED <<status, conn, socks, retrying, retrier, retryTimers,
                      requestTasks, messageTasks>>]_vars

\* C31: an entry is in its table when its frame is written, and the expiry
\* of a per-operation timer removes the entry of that operation from its
\* own table: a request timeout from requestTasks, a message timeout from
\* messageTasks unless the message is sent again in the same step; once a
\* QoS-1 send has failed for good no entry of it is left in messageTasks.
C31_TimeoutRemovesOwnEntry ==
    [][/\ \A n \in MsgKeys : msgOps'[n].tx > msgOps[n].tx => n \in messageTasks'
       /\ \A n \in ReqKeys : RequestTimerFires(n) => n \notin requestTasks'
       /\ \A n \in MsgKeys :
             (MessageTimerFires(n) /\ msgOps'[n].res # Pending) => n \notin messageTasks']_vars

\* C32: in every reachable state whose status is Unknown, Opening or
\* Closed both correlation tables are empty: entries exist only while the
\* session is Opened.  (Closing is held only inside a call of close.)
C32_TablesEmptyOutsideOpened ==
    status \in {Unknown, Opening, Closed} => (requestTasks = {} /\ messageTasks = {})

\* A failure has taken the session to Opening while a QoS-1 send and a
\* request were pending, and has emptied both tables.
C32_Witness ==
    /\ status = Opening /\ requestTasks = {} /\ messageTasks = {}
    /\ \E n \in MsgKeys : msgOps[n].tx > 0 /\ msgOps[n].res = NetworkError
    /\ \E n \in ReqKeys : reqOps[n].res = NetworkError

\* C33: an open, message, close or error event of a transport that is not
\* the current one (it was replaced in reconnect or dropped on Closed)
\* changes neither the status, the retrier, the correlation tables nor the
\* current transport, and arms no reconnect timer.
C33_OnlyCurrentTransport ==
    [][\A c \in Socks :
          (/\ c # conn
           /\ \/ WsOpen(c) \/ WsError(c) \/ WsClose(c)
              \/ \E p \in InPackets, throws \in BOOLEAN : WsMessage(c, p, throws))
          => UNCHANGED <<status, retrier, requestTasks, messageTasks, conn,
                         retrying, retryTimers>>]_vars

\* C34: the two correlation tables do not interfere: the expiry of a QoS-1
\* message's timer leaves request_tasks unchanged and the expiry of a
\* request's timer leaves message_tasks unchanged, so that a pending request
\* keeps its entry until its own Response or its own timer.
C34_TablesIndependent ==
    [][/\ \A n \in MsgKeys : MessageTimerFires(n) => requestTasks' = requestTasks
       /\ \A n \in ReqKeys : RequestTimerFires(n) => messageTasks' = messageTasks]_vars

\* C35: the session never rests in Opening with nothing in progress: while
\* the status is Opening there is a transport that has not failed (it is
\* connecting or open) or a pending reconnect timer.
C35_OpeningHasProgress ==
    status = Opening =>
        \/ conn # NoConn /\ socks[conn] \in {"connecting", "open"}
        \/ retryTimers # <<>>

NextEncode ==
    \/ Connect("alice")
    \/ Close(NoCode)
    \/ \E qos \in {0, 1}, kind \in {60, 64} : Send(qos, kind)
    \/ \E big \in BOOLEAN : Request(big)
    \/ \E c \in Socks : WsOpen(c)
    \/ \E c \in Socks, p \in AnswerPackets : WsMessage(c, p, FALSE)
    \/ \E c \in Socks : WsClose(c)
    \/ \E n \in MsgKeys : MessageTimerFires(n)
    \/ \E n \in ReqKeys : RequestTimerFires(n)

SpecEncode == Init /\ [][NextEncode]_vars

\* C37: a send or request that fails because its frame cannot be encoded
\* has no lasting effect: nothing is written, both correlation tables are
\* as before the call, and no per-operation timer stays armed.
C37_EncodeFailureNoEffect ==
    [][/\ \A qos \in {0, 1} :
             (status = Opened /\ conn # NoConn /\ Send(qos, 64))
             => /\ send(Cur, qos, 64).ret = MessageKindTooLarge
                /\ send(Cur, qos, 64).out = <<>>
                /\ messageTasks' = messageTasks /\ requestTasks' = requestTasks
                /\ \A n \in MsgKeys : msgOps'[n].timer = msgOps[n].timer
       /\ (status = Opened /\ conn # NoConn /\ Request(TRUE))
             => /\ request(Cur, TRUE).ret = PacketSizeTooLarge
                /\ request(Cur, TRUE).out = <<>>
                /\ messageTasks' = messageTasks /\ requestTasks' = requestTasks
                /\ \A n \in ReqKeys : reqOps'[n].timer = reqOps[n].timer]_vars

\* C38: after close() the session stays Closed until connect is called
\* again: while it is Closed, no step other than connect changes the
\* status, creates a transport or arms a reconnect timer, whether the step is
\* a pending reconnect timer that fires, a transport event or a ping timeout.
C38_ClosedUntilConnect ==
    [][(status = Closed /\ ~(\E ident \in Identities : Connect(ident)))
          => /\ status' = Closed /\ conn' = NoConn
             /\ \A c \in Socks : socks[c] = "none" => socks'[c] = "none"
             /\ Len(retryTimers') <= Len(retryTimers)
             /\ retrying' = FALSE \/ retrying' = retrying]_vars

\* close() was called while a reconnect timer was pending: the session is
\* Closed and without transport, and the timer is still to fire.
C38_Witness ==
    /\ status = Closed /\ conn = NoConn /\ retryTimers # <<>> /\ retrying
    /\ \E c \in Socks : socks[c] \in {"closing", "errored", "closed"}

\* What C39 says of every step apart from connect: the count stays within
\* 0..L, changes only through shouldRetry (plus one, with a reconnect timer
\* armed) or on entering Opened (to zero), is left unchanged by close, and
\* every reconnect that is scheduled is counted.
C39_Counted ==
    /\ retrier'.count \in 0..retrier'.limit
    /\ retrier' # retrier =>
          \/ /\ retrier' = [retrier EXCEPT !.count = @ + 1]
             /\ Len(retryTimers') = Len(retryTimers) + 1
          \/ /\ retrier' = [retrier EXCEPT !.count = 0]
             /\ status = Opening /\ status' = Opened
    /\ (\E code \in CloseCodes \cup {NoCode} : Close(code)) => retrier' = retrier
    /\ Len(retryTimers') > Len(retryTimers) => retrier'.count = retrier.count + 1
    /\ (status # Opened /\ status' = Opened) => retrier'.count = 0

\* C39 as stated: with a retry controller of limit L installed, its count
\* stays within 0..L, is changed only by shouldRetry and by entering Opened,
\* and is left unchanged by connect and close.
C39_AsStated ==
    [][retrier # NoRetrier =>
          /\ C39_Counted
          /\ (\E ident \in Identities : Connect(ident)) => retrier' = retrier]_vars

\* C39, amended: as stated, except that a connect whose transport cannot be
\* created fails at once and has that failure counted by shouldRetry; connect
\* never resets the count, so at most L reconnects are scheduled between two
\* entries into Opened.
C39_RetryCount ==
    [][retrier # NoRetrier =>
          /\ C39_Counted
          /\ (\E ident \in Identities : Connect(ident))
                => \/ retrier' = retrier
                   \/ /\ url = "bad" /\ retrier' = [retrier EXCEPT !.count = @ + 1]
                      /\ Len(retryTimers') = Len(retryTimers) + 1]_vars

\* The count has reached the limit 1 on the second transport, and the
\* failure that followed was declined: the session is Closed.
C39_Witness ==
    /\ retrier # NoRetrier /\ retrier.limit = 1 /\ retrier.count = 1
    /\ status = Closed /\ retryTimers = <<>> /\ ~retrying
    /\ \A c \in Socks : socks[c] \in {"errored", "closed"}

\* C40: at most one reconnect timer is pending at any time; while one is
\* pending every further failure reason (transport close or error, server
\* Close, rejected Connack, ping timeout) is absorbed: it changes neither
\* the status nor the retry count and arms no second timer; when the timer
\* fires the pending flag is cleared, whether or not a new transport was
\* opened.
C40_OneReconnectTimer ==
    [][/\ Len(retryTimers') <= 1
       /\ (/\ retryTimers # <<>>
           /\ \/ \E c \in Socks : WsError(c) \/ WsClose(c)
              \/ \E c \in Socks, p \in InPackets :
                    /\ p.type = "Close" \/ (p.type = "Connack" /\ p.code # Accepted)
                       \/ p.type = "Garbage"
                    /\ WsMessage(c, p, FALSE)
              \/ PingTimeoutFires \/ OrphanPingTimeoutFires)
          => UNCHANGED <<status, retrier, retryTimers>>
       /\ (\E i \in 1..2 : RetryTimerFires(i)) => (~retrying' /\ retryTimers' = <<>>)]_vars

\* A reconnect timer is pending and the session is Opened on the transport
\* it had before; the close event of that transport has since been absorbed.
C40_Witness ==
    /\ retryTimers # <<>> /\ retrying
    /\ status = Opened /\ conn # NoConn /\ socks[conn] = "closed"

====
